---------------------------- MODULE Spec2Model ----------------------------
(***************************************************************************)
(* Invoice ingestion pipeline of the FatturaPA manager (server/routes.ts,  *)
(* server/storage.ts): the batch upload endpoint with its per-file         *)
(* pipeline, the JSON record store with its in-memory cache, the artifact  *)
(* directories, and the SSE progress endpoint.                             *)
(*                                                                         *)
(* Every `await` of the source is a point where the event loop may run     *)
(* another task, so every action below is the synchronous code between two *)
(* awaits.  The backup/restore routes (and with them clearCache) are not   *)
(* modelled: after the first readAll the cache stays initialised.          *)
(***************************************************************************)
EXTENDS Integers, Sequences, FiniteSets, TLC

VARIABLES
    cacheInitialized,  \* storage.ts: let cacheInitialized
    invoiceCache,      \* storage.ts: let invoiceCache (a sequence of records)
    metadataFile,      \* the JSON file METADATA_FILE on disk
    xmlDir,            \* XML_DIR : filename -> content
    htmlDir,           \* HTML_DIR: filename -> content
    pdfDir,            \* PDF_DIR : filename -> content
    uploadJobs,        \* routes.ts: the keys of the Map uploadJobs
    progress,          \* the UploadProgress object of every job ever created
    files,             \* one entry per running processFile call: <<job, index>> -> locals
    subs,              \* one entry per SSE connection: its listener and what it was sent
    emitted,           \* history: per job, the snapshots given to progressEmitter.emit
    responses,         \* history: the POST /api/invoices/upload requests and their responses
    deletes,           \* one entry per running deleteInvoiceWithFiles call: request -> locals
    browserInstance,   \* html-to-pdf.ts: let browserInstance (0 is null, else a browser)
    browsers,          \* the browsers launched so far: browser -> its `connected`
    calls,             \* one entry per generatePDFFromHTML call: call -> locals
    shutdown           \* the closeBrowser call: its position and the browser it closes

vars == <<cacheInitialized, invoiceCache, metadataFile, xmlDir, htmlDir, pdfDir,
          uploadJobs, progress, files, subs, emitted, responses, deletes,
          browserInstance, browsers, calls, shutdown>>

storeVars == <<cacheInitialized, invoiceCache, metadataFile>>
dirVars == <<xmlDir, htmlDir, pdfDir>>
jobVars == <<uploadJobs, progress, subs, emitted>>
reqVars == <<responses, deletes>>
renderVars == <<browserInstance, browsers, calls, shutdown>>
pipelineVars == <<storeVars, dirVars, jobVars, files, reqVars>>

-----------------------------------------------------------------------------
(* Bounds of the model.                                                    *)

\* Files uploaded in total (over all batches) in the pipeline runs.
MaxFiles == 2
\* Files uploaded in total in the runs that include SSE subscribers.
SubFiles == 1
\* SSE connections opened in the runs that include subscribers.
MaxSubs == 2
\* Records already in the store when the duplicate check is exercised.
MaxExisting == 1
\* Runs of the pipeline on the same upload, one after the other.
MaxRuns == 2
\* Upload requests in the runs that include refused requests.
MaxRequests == 3
\* Delete requests in the runs that include deletion.
MaxDeletes == 1
\* Length of the invoice numbers the base name is derived from.
MaxLen == 2
\* generatePDFFromHTML calls
MaxCalls == 3

\* upload.array("files", 10): multer refuses more than 10 files per request.
MaxBatch == 10
\* limits.fileSize and maxFileSize: 10 * 1024 * 1024 bytes.
MaxFileSize == 10485760

-----------------------------------------------------------------------------
(* Values.                                                                 *)

Null == "null"
Undefined == "undefined"

Digits == {"0", "1", "2", "3", "4", "5", "6", "7", "8", "9"}
Letters == {"A", "B", "C", "D", "E", "F", "G", "H", "I", "J", "K", "L", "M",
            "N", "O", "P", "Q", "R", "S", "T", "U", "V", "W", "X", "Y", "Z",
            "a", "b", "c", "d", "e", "f", "g", "h", "i", "j", "k", "l", "m",
            "n", "o", "p", "q", "r", "s", "t", "u", "v", "w", "x", "y", "z"}

\* The parsed invoice, cut down to the fields routes.ts reads for the business key
\* and the stable filename.  Numbers and dates are sequences of characters.
InvoiceData(num, date, vat, fc) ==
    [invoiceNumber |-> num, invoiceDate |-> date,
     supplierVat |-> vat, supplierFiscalCode |-> fc]

\* File contents that are no invoice.
Garbage == [kind |-> "garbage"]   \* bytes holding no XML at all
Corrupt == [kind |-> "corrupt"]   \* XML text that is no FatturaPA document
Invoice(d) == [kind |-> "invoice", data |-> d]

\* file.originalname.toLowerCase().endsWith(".p7m")
P7mNames == {"c.p7m", "D.P7M"}
IsP7m(name) == name \in P7mNames

-----------------------------------------------------------------------------
(* Pure helpers of processFile.                                            *)

\* A base name that keeps the invoice number as it is
safeInvoiceNumberRaw(num) == num

\* invoiceNumber.replace(/[^a-zA-Z0-9]/g, "_")
safeInvoiceNumber(num) ==
    [i \in 1..Len(num) |->
        IF num[i] \in Letters \cup Digits THEN num[i] ELSE "_"]

\* invoiceDate.replace(/[^0-9]/g, "")
safeDate(date) == SelectSeq(date, LAMBDA c : c \in Digits)

\* `${safeInvoiceNumber}_${safeDate}`
stableFilename(d) ==
    safeInvoiceNumber(d.invoiceNumber) \o <<"_">> \o safeDate(d.invoiceDate)

xmlFilename(d) == stableFilename(d) \o <<".xml">>
htmlFilename(d) == stableFilename(d) \o <<".html">>
pdfFilename(d) == stableFilename(d) \o <<".pdf">>

\* A check that wants the VAT number and the fiscal code to be equal both
isDuplicateBothIds(existingInvoices, invoiceData) ==
    \E k \in 1..Len(existingInvoices) :
        LET inv == existingInvoices[k] IN
        /\ inv.invoiceNumber = invoiceData.invoiceNumber
        /\ inv.invoiceDate = invoiceData.invoiceDate
        /\ inv.supplierVat = invoiceData.supplierVat
        /\ inv.supplierFiscalCode = invoiceData.supplierFiscalCode

\* existingInvoices.some(inv => ...), on the list getAllInvoices returned
isDuplicate(existingInvoices, invoiceData) ==
    \E k \in 1..Len(existingInvoices) :
        LET inv == existingInvoices[k] IN
        /\ inv.invoiceNumber = invoiceData.invoiceNumber
        /\ inv.invoiceDate = invoiceData.invoiceDate
        /\ \/ inv.supplierVat = invoiceData.supplierVat
           \/ inv.supplierFiscalCode = invoiceData.supplierFiscalCode

\* What a parse of the envelope by node-forge comes to: an exception, no content,
\* or a text, which may hold an XML declaration and may hold the invoice root tag
Throws == [kind |-> "throws"]
Empty == [kind |-> "empty"]
NoArmor == [kind |-> "noArmor"]
Text(decl, root) == [kind |-> "text", decl |-> decl, root |-> root]
IsText(x) == x.kind = "text"

\* A signed envelope, by what the extractor can see of it: the outcome of the DER
\* parse, of the PEM parse (NoArmor: no "-----BEGIN" in the bytes), of the search
\* through the authenticated attributes, and what the raw bytes hold
SignedEnvelope(der, pem, attr, raw, d) ==
    [kind |-> "p7m", der |-> der, pem |-> pem, attr |-> attr, raw |-> raw, data |-> d]

\* cleanXMLContent, as far as the declaration goes: it is put in front of a text
\* that holds the root tag and no declaration
cleanXMLContent(text) ==
    IF ~text.decl /\ text.root THEN [text EXCEPT !.decl = TRUE] ELSE text

Failure(msg) == [ok |-> FALSE, error |-> msg]
Extracted(from, text) == [ok |-> TRUE, from |-> from, text |-> text]

\* An extractor that knows the DER parse only
extractWithNodeForgeDerOnly(p7mBuffer) ==
    IF IsText(p7mBuffer.der) /\ cleanXMLContent(p7mBuffer.der).decl
    THEN Extracted("der", cleanXMLContent(p7mBuffer.der))
    ELSE Failure("node-forge extraction failed")

\* extractWithNodeForge: DER content, else PEM content, else an authenticated
\* attribute with "<?xml" in it; the text found is cleaned and must hold "<?xml"
extractWithNodeForge(p7mBuffer) ==
    LET fromDer == IsText(p7mBuffer.der)
        fromPem == ~fromDer /\ IsText(p7mBuffer.pem)
        fromAttr == /\ ~fromDer /\ ~fromPem
                    /\ p7mBuffer.der # Throws
                    /\ IsText(p7mBuffer.attr) /\ p7mBuffer.attr.decl
        from == IF fromDer THEN "der" ELSE IF fromPem THEN "pem" ELSE "attr"
        xmlContent == IF fromDer THEN p7mBuffer.der
                      ELSE IF fromPem THEN p7mBuffer.pem ELSE p7mBuffer.attr
    IN  IF ~(fromDer \/ fromPem \/ fromAttr)
        THEN Failure("node-forge extraction failed: No valid XML content found in P7M file")
        ELSE IF ~cleanXMLContent(xmlContent).decl
             THEN Failure("node-forge extraction failed: Extracted content does not appear to be valid XML")
             ELSE Extracted(from, cleanXMLContent(xmlContent))

\* extractXMLWithFallback: "<?xml" up to a closing root tag of any known prefix,
\* else "<FatturaElettronica" up to the plain or the p: closing tag, else the same
\* search in three encodings with the plain closing tag
extractXMLWithFallback(p7mBuffer) ==
    LET raw == p7mBuffer.raw IN
    IF raw.decl /\ raw.close # "none"
    THEN Extracted("scan", cleanXMLContent(Text(TRUE, TRUE)))
    ELSE IF raw.root /\ raw.close \in {"plain", "p"}
         THEN Extracted("scan", cleanXMLContent(Text(FALSE, TRUE)))
         ELSE IF (raw.decl \/ raw.root) /\ raw.close = "plain"
              THEN Extracted("scan", cleanXMLContent(Text(raw.decl, TRUE)))
              ELSE Failure("Failed to extract XML from P7M file")

\* extractXMLFromP7M: node-forge first, the byte scan when it throws.  An upload
\* given by its content alone is an envelope node-forge opens (or, for Garbage,
\* one nothing opens).
extractXMLFromP7M(p7mBuffer) ==
    IF p7mBuffer.kind = "p7m"
    THEN IF extractWithNodeForge(p7mBuffer).ok
         THEN extractWithNodeForge(p7mBuffer)
         ELSE extractXMLWithFallback(p7mBuffer)
    ELSE IF p7mBuffer.kind = "garbage"
         THEN Failure("Failed to extract XML from P7M file")
         ELSE Extracted("der", Text(TRUE, TRUE))

\* extractXMLFromP7M returns the XML text inside the envelope
extractOk(buffer) == extractXMLFromP7M(buffer).ok

\* The text of an XML element as xml2js hands it over: undefined when the element
\* is absent, "" when it is empty, a numeral, a numeral with letters after it
\* ("12abc"), or a word with no number at its head ("abc")
Absent == [kind |-> "absent"]
Blank == [kind |-> "blank"]
Numeral(n) == [kind |-> "numeral", value |-> n]
Prefixed(n) == [kind |-> "prefixed", value |-> n]
Word == [kind |-> "word"]

\* JavaScript numbers: n, or NaN
Number(n) == [kind |-> "number", value |-> n]
NaN == [kind |-> "NaN"]

\* A string is truthy unless it is empty; undefined is not
Truthy(text) == text.kind \notin {"absent", "blank"}

\* text || fallback
OrElse(text, fallback) == IF Truthy(text) THEN text ELSE fallback

\* parseFloat reads the longest numeric head of the string, NaN when there is none
parseFloat(text) ==
    IF text.kind \in {"numeral", "prefixed"} THEN Number(text.value) ELSE NaN

\* The elements of an invoice document that the parser reads as numbers
NumericElements ==
    {"ImportoTotaleDocumento", "ImponibileImporto", "Imposta",
     "Quantita", "PrezzoUnitario", "PrezzoTotale", "AliquotaIVA", "Percentuale",
     "ImportoPagamento"}

\* A document with one line and one payment, every amount a plain numeral
PlainDocument == [e \in NumericElements |-> Numeral(1)]

\* An XML upload given by its elements
Document(d, doc) == [kind |-> "xml", data |-> d, doc |-> doc]

DocumentOf(buffer) == IF buffer.kind = "xml" THEN buffer.doc ELSE PlainDocument

\* lineItems.map: quantity
lineItemQuantity(line) == parseFloat(OrElse(line["Quantita"], Numeral(1)))

\* parseFatturaPAXML: the numeric fields of the parsed invoice, or failure
parseFatturaPAXML(buffer) ==
    IF buffer.kind \notin {"invoice", "p7m", "xml"}
    THEN [ok |-> FALSE]
    ELSE LET doc == DocumentOf(buffer) IN
         [ok |-> TRUE,
          lineItems |-> <<
              [quantity |-> lineItemQuantity(doc),
               unitPrice |-> parseFloat(OrElse(doc["PrezzoUnitario"], Numeral(0))),
               total |-> parseFloat(OrElse(doc["PrezzoTotale"], Numeral(0))),
               vat |-> parseFloat(OrElse(doc["AliquotaIVA"], Numeral(0))),
               discount |-> IF Truthy(doc["Percentuale"])
                            THEN parseFloat(doc["Percentuale"])
                            ELSE Number(0),
               hasQuantity |-> Truthy(doc["Quantita"]),
               hasTotalPrice |->
                   parseFloat(OrElse(doc["PrezzoTotale"], Numeral(0))) # Number(0)] >>,
          totalAmount |-> parseFloat(OrElse(doc["ImportoTotaleDocumento"], Numeral(0))),
          taxableAmount |-> parseFloat(OrElse(doc["ImponibileImporto"], Numeral(0))),
          taxAmount |-> parseFloat(OrElse(doc["Imposta"], Numeral(0))),
          paymentDetails |-> <<
              [amount |-> parseFloat(OrElse(doc["ImportoPagamento"], Numeral(0)))] >>]

\* parseFatturaPAXML returns the invoice data
parseOk(buffer) == parseFatturaPAXML(buffer).ok

\* getAllInvoices: readAll's copy sorted by createdAt, newest first
getAllInvoices(all) == [k \in 1..Len(all) |-> all[Len(all) + 1 - k]]

-----------------------------------------------------------------------------
(* Progress snapshots and the progress emitter.                            *)

IsTerminal(p) == p.status \in {"completed", "failed"}

\* The UploadProgress object built by POST /api/invoices/upload
NewProgress(j, n) ==
    [jobId |-> j, total |-> n, completed |-> 0, failed |-> 0,
     status |-> "preparing", currentFile |-> "Inizializzazione...",
     hasLists |-> FALSE, results |-> <<>>, errors |-> <<>>]

JobNotFound == [error |-> "Job not found"]

\* A handler that forwards the terminal snapshots only
progressHandlerTerminalOnly(sub, j, p) ==
    IF sub.jobId = j /\ IsTerminal(p)
    THEN [sub EXCEPT !.received = Append(@, p), !.timers = @ + 1]
    ELSE sub

\* A listener that does not look at the job id of the event
progressHandlerAnyJob(sub, j, p) ==
    [sub EXCEPT !.received = Append(@, p),
                !.timers = IF IsTerminal(p) THEN @ + 1 ELSE @]

\* progressHandler of one connection, called with {jobId, progress}
progressHandler(sub, j, p) ==
    IF sub.jobId = j
    THEN [sub EXCEPT !.received = Append(@, p),
                     !.timers = IF IsTerminal(p) THEN @ + 1 ELSE @]
    ELSE sub

\* progressEmitter.emit("progress", {jobId, progress}): every registered listener runs
Notify(S, j, p) ==
    [s \in DOMAIN S |-> IF S[s].listening THEN progressHandler(S[s], j, p) ELSE S[s]]

RECURSIVE NotifyAll(_, _, _)
NotifyAll(S, j, ps) ==
    IF ps = <<>> THEN S ELSE NotifyAll(Notify(S, j, Head(ps)), j, Tail(ps))

\* One emit of job j's progress object p, with the object stored back
Emit(j, p) ==
    /\ progress' = [progress EXCEPT ![j] = p]
    /\ subs' = Notify(subs, j, p)
    /\ emitted' = [emitted EXCEPT ![j] = Append(@, p)]

-----------------------------------------------------------------------------
(* POST /api/invoices/upload: the synchronous part.                        *)

NewFile(up) ==
    [originalname |-> up.originalname, buffer |-> up.buffer,
     pc |-> IF IsP7m(up.originalname) THEN "extract" ELSE "parse",
     \* xmlExists..all are processFile's locals; wrote is history: the artifacts
     \* this call has written
     xmlExists |-> FALSE, htmlExists |-> FALSE, pdfExists |-> FALSE,
     all |-> <<>>, wrote |-> {}, result |-> [none |-> TRUE],
     \* what extractXMLFromP7M returned
     extracted |-> [none |-> TRUE]]

\* The snapshots emitted before the handler returns: "preparing", "processing",
\* and one per file as processFile sets currentFile.
SubmitSnapshots(j, ups) ==
    LET p0 == NewProgress(j, Len(ups))
        p1 == [p0 EXCEPT !.status = "processing", !.currentFile = ""]
    IN  <<p0, p1>> \o [i \in 1..Len(ups) |-> [p1 EXCEPT !.currentFile = ups[i].originalname]]

\* multer's fileFilter: path.extname(file.originalname).toLowerCase() is ".xml" or ".p7m"
XmlNames == {"a.xml", "b.xml", "e.xml"}
fileFilter(name) == name \in XmlNames \cup P7mNames

\* The files of the request at which multer gives up: the 11th file of the field,
\* a file the filter refuses, a file of more than limits.fileSize bytes
Refused(reqFiles) ==
    {i \in 1..Len(reqFiles) :
        \/ i > MaxBatch
        \/ ~fileFilter(reqFiles[i].originalname)
        \/ reqFiles[i].size > MaxFileSize}

\* A handler that takes every request that has a file
UploadResponseAnyFile(j, reqFiles) ==
    IF Len(reqFiles) = 0
    THEN [status |-> 400, error |-> "No files uploaded"]
    ELSE [status |-> 202, jobId |-> j]

\* The response to POST /api/invoices/upload: multer's error through the error
\* middleware (no status on the error: 500), the handler's own 400s, or 202
UploadResponse(j, reqFiles) ==
    IF Refused(reqFiles) # {}
    THEN LET i == CHOOSE k \in Refused(reqFiles) : \A l \in Refused(reqFiles) : k <= l
         IN  IF i > MaxBatch THEN [status |-> 500, error |-> "Unexpected field"]
             ELSE IF ~fileFilter(reqFiles[i].originalname)
                  THEN [status |-> 500, error |-> "Only .xml and .p7m files are allowed"]
                  ELSE [status |-> 500, error |-> "File too large"]
    ELSE IF Len(reqFiles) = 0
         THEN [status |-> 400, error |-> "No files uploaded"]
         ELSE IF \E i \in 1..Len(reqFiles) : reqFiles[i].size > MaxFileSize
              THEN [status |-> 400, error |-> "Files too large"]
              ELSE [status |-> 202, jobId |-> j]

\* A request that is answered with an error: nothing else happens
RejectUpload(reqFiles) ==
    /\ UploadResponse(0, reqFiles).status # 202
    /\ responses' = Append(responses, [request |-> reqFiles,
                                        response |-> UploadResponse(0, reqFiles)])
    /\ UNCHANGED <<storeVars, dirVars, jobVars, files, deletes, renderVars>>

Submit(j, ups) ==
    /\ j \notin DOMAIN progress
    /\ UploadResponse(j, ups).status = 202
    /\ responses' = Append(responses, [request |-> ups,
                                        response |-> UploadResponse(j, ups)])
    /\ UNCHANGED <<deletes, renderVars>>
    /\ LET snaps == SubmitSnapshots(j, ups) IN
        /\ uploadJobs' = uploadJobs \cup {j}
        /\ progress' = progress @@ (j :> snaps[Len(snaps)])
        /\ subs' = NotifyAll(subs, j, snaps)
        /\ emitted' = emitted @@ (j :> snaps)
    /\ files' = files @@ [f \in {j} \X (1..Len(ups)) |-> NewFile(ups[f[2]])]
    /\ UNCHANGED <<storeVars, dirVars>>

-----------------------------------------------------------------------------
(* processFile: one action per await.                                      *)

Data(f) == files[f].buffer.data

\* A pipeline without the catch: the error leaves processFile as a rejection
FailUncaught(f, msg, code) ==
    /\ files' = [files EXCEPT ![f].pc = "rejected"]
    /\ UNCHANGED jobVars

\* A pipeline that counts the failure and starts the file over
FailAndRetry(f, msg, code) ==
    /\ files' = [files EXCEPT ![f].pc = IF IsP7m(files[f].originalname)
                                        THEN "extract" ELSE "parse"]
    /\ Emit(f[1], [progress[f[1]] EXCEPT !.failed = @ + 1])
    /\ UNCHANGED uploadJobs

\* A pipeline that counts a file as completed before its last step, and as failed
\* as well when that step throws
FailCountedTwice(f, msg, code) ==
    /\ files' = [files EXCEPT ![f].pc = "failed",
                              ![f].result = [filename |-> files[f].originalname,
                                             error |-> msg, code |-> code]]
    /\ Emit(f[1], [progress[f[1]] EXCEPT !.failed = @ + 1, !.completed = @ + 1])
    /\ UNCHANGED uploadJobs

\* catch (error): progress.failed++, emit, return {success: false, error}
Fail(f, msg, code) ==
    /\ files' = [files EXCEPT ![f].pc = "failed",
                              ![f].result = [filename |-> files[f].originalname,
                                             error |-> msg, code |-> code]]
    /\ Emit(f[1], [progress[f[1]] EXCEPT !.failed = @ + 1])
    /\ UNCHANGED uploadJobs

Goto(f, pc) ==
    /\ files' = [files EXCEPT ![f].pc = pc]
    /\ UNCHANGED jobVars

\* A duplicate check whose error carries no code
DuplicateCheckNoCode(f, existingInvoices) ==
    IF isDuplicate(existingInvoices, Data(f))
    THEN Fail(f, "Fattura duplicata", Undefined)
    ELSE Goto(f, "statXml")

\* A pipeline that goes on whatever the duplicate check finds
DuplicateCheckSkipped(f, existingInvoices) == Goto(f, "statXml")

\* The duplicate check on the list getAllInvoices returned, and what follows it
DuplicateCheck(f, existingInvoices) ==
    IF isDuplicate(existingInvoices, Data(f))
    THEN Fail(f, "Fattura duplicata", "DUPLICATE_INVOICE")
    ELSE Goto(f, "statXml")

\* await extractXMLFromP7M(file.buffer)
Extract(f) ==
    /\ files[f].pc = "extract"
    /\ IF extractOk(files[f].buffer)
       THEN /\ files' = [files EXCEPT ![f].pc = "parse",
                                      ![f].extracted = extractXMLFromP7M(files[f].buffer)]
            /\ UNCHANGED jobVars
       ELSE Fail(f, "Failed to extract XML from P7M file", Undefined)
    /\ UNCHANGED <<storeVars, dirVars>>
    /\ UNCHANGED <<reqVars, renderVars>>

\* await parseFatturaPAXML(xmlContent), then the call of storage.getAllInvoices():
\* readAll answers from the cache at once, or starts reading the metadata file.
Parse(f) ==
    /\ files[f].pc = "parse"
    /\ IF ~parseOk(files[f].buffer)
       THEN Fail(f, "Failed to parse FatturaPA XML", Undefined)
       ELSE IF cacheInitialized
            THEN DuplicateCheck(f, getAllInvoices(invoiceCache))
            ELSE /\ files' = [files EXCEPT ![f].pc = "readAll", ![f].all = metadataFile]
                 /\ UNCHANGED jobVars
    /\ UNCHANGED <<storeVars, dirVars>>
    /\ UNCHANGED <<reqVars, renderVars>>

\* readAll after fs.readFile: the cache is set to what was read
ReadAllFromDisk(f) ==
    /\ files[f].pc = "readAll"
    /\ invoiceCache' = files[f].all
    /\ cacheInitialized' = TRUE
    /\ DuplicateCheck(f, getAllInvoices(files[f].all))
    /\ UNCHANGED <<metadataFile, dirVars>>
    /\ UNCHANGED <<reqVars, renderVars>>

Exists(dir, name) == name \in DOMAIN dir

\* fs.writeFile(path, content): creates the file or replaces its content
WriteFile(dir, name, content) ==
    [n \in DOMAIN dir \cup {name} |-> IF n = name THEN content ELSE dir[n]]

\* A pipeline that writes the XML file without looking for it first
StatXmlIgnored(f) ==
    /\ files[f].pc = "statXml"
    /\ files' = [files EXCEPT ![f].pc = "statHtml", ![f].xmlExists = FALSE]
    /\ UNCHANGED <<storeVars, dirVars, jobVars>>
    /\ UNCHANGED <<reqVars, renderVars>>

\* await fs.stat(xmlPath).then(() => true).catch(() => false)
StatXml(f) ==
    /\ files[f].pc = "statXml"
    /\ files' = [files EXCEPT ![f].pc = "statHtml",
                              ![f].xmlExists = Exists(xmlDir, xmlFilename(Data(f)))]
    /\ UNCHANGED <<storeVars, dirVars, jobVars>>
    /\ UNCHANGED <<reqVars, renderVars>>

StatHtml(f) ==
    /\ files[f].pc = "statHtml"
    /\ files' = [files EXCEPT ![f].pc = "statPdf",
                              ![f].htmlExists = Exists(htmlDir, htmlFilename(Data(f)))]
    /\ UNCHANGED <<storeVars, dirVars, jobVars>>
    /\ UNCHANGED <<reqVars, renderVars>>

\* the third stat; then fs.writeFile(xmlPath) is called unless xmlExists
StatPdf(f) ==
    /\ files[f].pc = "statPdf"
    /\ files' = [files EXCEPT ![f].pc = IF files[f].xmlExists THEN "toHtml" ELSE "writeXml",
                              ![f].pdfExists = Exists(pdfDir, pdfFilename(Data(f)))]
    /\ UNCHANGED <<storeVars, dirVars, jobVars>>
    /\ UNCHANGED <<reqVars, renderVars>>

\* await fs.writeFile(xmlPath, xmlContent, "utf-8")
WriteXml(f) ==
    /\ files[f].pc = "writeXml"
    /\ \E ok \in BOOLEAN :
        IF ok
        THEN /\ xmlDir' = WriteFile(xmlDir, xmlFilename(Data(f)), [xml |-> Data(f)])
             /\ files' = [files EXCEPT ![f].pc = "toHtml", ![f].wrote = @ \cup {"xml"}]
             /\ UNCHANGED jobVars
        ELSE /\ Fail(f, "EIO: write failed", "EIO")
             /\ UNCHANGED xmlDir
    /\ UNCHANGED <<storeVars, htmlDir, pdfDir>>
    /\ UNCHANGED <<reqVars, renderVars>>

\* await transformXMLToHTML(xmlContent); then fs.writeFile(htmlPath) unless htmlExists
ToHtml(f) ==
    /\ files[f].pc = "toHtml"
    /\ \E ok \in BOOLEAN :
        IF ok
        THEN Goto(f, IF files[f].htmlExists THEN "toPdf" ELSE "writeHtml")
        ELSE Fail(f, "Failed to transform XML to HTML", Undefined)
    /\ UNCHANGED <<storeVars, dirVars>>
    /\ UNCHANGED <<reqVars, renderVars>>

\* await fs.writeFile(htmlPath, htmlContent, "utf-8")
WriteHtml(f) ==
    /\ files[f].pc = "writeHtml"
    /\ \E ok \in BOOLEAN :
        IF ok
        THEN /\ htmlDir' = WriteFile(htmlDir, htmlFilename(Data(f)), [html |-> Data(f)])
             /\ files' = [files EXCEPT ![f].pc = "toPdf", ![f].wrote = @ \cup {"html"}]
             /\ UNCHANGED jobVars
        ELSE /\ Fail(f, "EIO: write failed", "EIO")
             /\ UNCHANGED htmlDir
    /\ UNCHANGED <<storeVars, xmlDir, pdfDir>>
    /\ UNCHANGED <<reqVars, renderVars>>

\* storage.createInvoice is entered: readAll copies the cache, writeAll starts
CallCreateInvoice(f, written) ==
    /\ files' = [files EXCEPT ![f].pc = "createInvoice", ![f].all = invoiceCache,
                              ![f].wrote = @ \cup written]
    /\ UNCHANGED jobVars

\* await generatePDFFromHTML(htmlContent); then fs.writeFile(pdfPath) unless pdfExists
ToPdf(f) ==
    /\ files[f].pc = "toPdf"
    /\ \E ok \in BOOLEAN :
        IF ok
        THEN IF files[f].pdfExists THEN CallCreateInvoice(f, {}) ELSE Goto(f, "writePdf")
        ELSE Fail(f, "Failed to generate PDF from HTML", Undefined)
    /\ UNCHANGED <<storeVars, dirVars>>
    /\ UNCHANGED <<reqVars, renderVars>>

\* await fs.writeFile(pdfPath, pdfBuffer)
WritePdf(f) ==
    /\ files[f].pc = "writePdf"
    /\ \E ok \in BOOLEAN :
        IF ok
        THEN /\ pdfDir' = WriteFile(pdfDir, pdfFilename(Data(f)), [pdf |-> Data(f)])
             /\ CallCreateInvoice(f, {"pdf"})
        ELSE /\ Fail(f, "EIO: write failed", "EIO")
             /\ UNCHANGED pdfDir
    /\ UNCHANGED <<storeVars, xmlDir, htmlDir>>
    /\ UNCHANGED <<reqVars, renderVars>>

\* The record storage.createInvoice builds from processFile's argument
NewInvoice(f) ==
    [id |-> f,
     filename |-> files[f].originalname,
     originalFormat |-> IF IsP7m(files[f].originalname) THEN "p7m" ELSE "xml",
     invoiceNumber |-> Data(f).invoiceNumber,
     invoiceDate |-> Data(f).invoiceDate,
     supplierVat |-> Data(f).supplierVat,
     supplierFiscalCode |-> Data(f).supplierFiscalCode,
     status |-> "not_printed",
     marked |-> FALSE,
     xmlPath |-> xmlFilename(Data(f)),
     htmlPath |-> htmlFilename(Data(f)),
     pdfPath |-> pdfFilename(Data(f))]

\* writeAll(all) after all.push(invoice): the file, then the cache; back in
\* processFile: progress.completed++, emit, return {success: true, invoice}
CreateInvoice(f) ==
    /\ files[f].pc = "createInvoice"
    /\ \E ok \in BOOLEAN :
        IF ok
        THEN /\ metadataFile' = Append(files[f].all, NewInvoice(f))
             /\ invoiceCache' = Append(files[f].all, NewInvoice(f))
             /\ files' = [files EXCEPT ![f].pc = "done", ![f].result = NewInvoice(f),
                                       ![f].all = <<>>]
             /\ Emit(f[1], [progress[f[1]] EXCEPT !.completed = @ + 1])
             /\ UNCHANGED uploadJobs
        ELSE /\ Fail(f, "EIO: write failed", "EIO")
             /\ UNCHANGED <<metadataFile, invoiceCache>>
    /\ UNCHANGED <<cacheInitialized, dirVars>>
    /\ UNCHANGED <<reqVars, renderVars>>

-----------------------------------------------------------------------------
(* The end of the background task.                                         *)

FilesOf(j) == {f \in DOMAIN files : f[1] = j}

Resolved(f) == files[f].pc \in {"done", "failed"}

\* A task that drops the invoices it has stored
ResultsOfNone(j) == <<>>

\* allResults.forEach: the invoices of the successful files, in upload order
ResultsOf(j) ==
    LET ok == SelectSeq([i \in 1..progress[j].total |-> <<j, i>>],
                        LAMBDA f : files[f].pc = "done")
    IN  [k \in 1..Len(ok) |-> files[ok[k]].result]

\* allResults.forEach: the error entries of the failed files, in upload order
ErrorsOf(j) ==
    LET ko == SelectSeq([i \in 1..progress[j].total |-> <<j, i>>],
                        LAMBDA f : files[f].pc = "failed")
    IN  [k \in 1..Len(ko) |-> files[ko[k]].result]

\* A batch that counts as failed as soon as one file failed
TerminalStatusAnyError(errors, total) == IF Len(errors) > 0 THEN "failed" ELSE "completed"

\* errors.length === files.length ? "failed" : "completed"
TerminalStatus(errors, total) == IF Len(errors) = total THEN "failed" ELSE "completed"

\* A task that ends as soon as one file has failed, whatever its siblings do
FinalizeOnFirstFailure(j) ==
    /\ j \in DOMAIN progress
    /\ progress[j].status = "processing"
    /\ \/ \A f \in FilesOf(j) : Resolved(f)
       \/ \E f \in FilesOf(j) : files[f].pc = "failed"
    /\ Emit(j, [progress[j] EXCEPT
                    !.hasLists = TRUE,
                    !.results = ResultsOf(j),
                    !.errors = ErrorsOf(j),
                    !.status = TerminalStatus(ErrorsOf(j), progress[j].total),
                    !.currentFile = ""])
    /\ UNCHANGED <<storeVars, dirVars, uploadJobs, files>>
    /\ UNCHANGED <<reqVars, renderVars>>

\* Promise.all has resolved: merge, decide the status, emit, arm the grace timer
Finalize(j) ==
    /\ j \in DOMAIN progress
    /\ progress[j].status = "processing"
    /\ \A f \in FilesOf(j) : Resolved(f)
    /\ Emit(j, [progress[j] EXCEPT
                    !.hasLists = TRUE,
                    !.results = ResultsOf(j),
                    !.errors = ErrorsOf(j),
                    !.status = TerminalStatus(ErrorsOf(j), progress[j].total),
                    !.currentFile = ""])
    /\ UNCHANGED <<storeVars, dirVars, uploadJobs, files>>
    /\ UNCHANGED <<reqVars, renderVars>>

\* A job table that forgets a job at any time
ExpireJobAnytime(j) ==
    /\ j \in uploadJobs
    /\ uploadJobs' = uploadJobs \ {j}
    /\ UNCHANGED <<storeVars, dirVars, progress, files, subs, emitted>>
    /\ UNCHANGED <<reqVars, renderVars>>

\* setTimeout(() => uploadJobs.delete(jobId), 5 * 60 * 1000)
ExpireJob(j) ==
    /\ j \in uploadJobs
    /\ IsTerminal(progress[j])
    /\ uploadJobs' = uploadJobs \ {j}
    /\ UNCHANGED <<storeVars, dirVars, progress, files, subs, emitted>>
    /\ UNCHANGED <<reqVars, renderVars>>

-----------------------------------------------------------------------------
(* GET /api/invoices/upload/progress/:jobId                                *)

\* The handler: the current snapshot or the error event, then the listener
Subscribe(s, j) ==
    /\ s \notin DOMAIN subs
    /\ subs' = subs @@ (s :>
          [jobId |-> j,
           received |-> <<IF j \in uploadJobs THEN progress[j] ELSE JobNotFound>>,
           since |-> IF j \in DOMAIN emitted THEN Len(emitted[j]) ELSE 0,
           listening |-> TRUE,
           timers |-> 0,
           closedBy |-> "nobody"])
    /\ UNCHANGED <<storeVars, dirVars, uploadJobs, progress, files, emitted>>
    /\ UNCHANGED <<reqVars, renderVars>>

\* The 100 ms timer armed by a terminal snapshot: removeListener, res.end()
CloseTimer(s) ==
    /\ s \in DOMAIN subs
    /\ subs[s].timers > 0
    /\ subs' = [subs EXCEPT ![s].timers = @ - 1,
                            ![s].listening = FALSE,
                            ![s].closedBy = IF @ = "nobody" THEN "server" ELSE @]
    /\ UNCHANGED <<storeVars, dirVars, uploadJobs, progress, files, emitted>>
    /\ UNCHANGED <<reqVars, renderVars>>

\* A close handler that calls removeAllListeners("progress")
DisconnectRemovesAll(s) ==
    /\ s \in DOMAIN subs
    /\ subs[s].closedBy = "nobody"
    /\ subs' = [t \in DOMAIN subs |->
                    IF t = s THEN [subs[t] EXCEPT !.listening = FALSE, !.closedBy = "client"]
                    ELSE [subs[t] EXCEPT !.listening = FALSE]]
    /\ UNCHANGED <<storeVars, dirVars, uploadJobs, progress, files, emitted>>
    /\ UNCHANGED <<reqVars, renderVars>>

\* req.on("close"): the client went away: removeListener, res.end()
Disconnect(s) ==
    /\ s \in DOMAIN subs
    /\ subs[s].closedBy = "nobody"
    /\ subs' = [subs EXCEPT ![s].listening = FALSE, ![s].closedBy = "client"]
    /\ UNCHANGED <<storeVars, dirVars, uploadJobs, progress, files, emitted>>
    /\ UNCHANGED <<reqVars, renderVars>>

-----------------------------------------------------------------------------
(* DELETE /api/invoices/:id: deleteInvoiceWithFiles, one action per await. *)

NoInvoice == [none |-> TRUE]

\* all.find((i) => i.id === id)
FindInvoice(all, id) ==
    IF \E k \in 1..Len(all) : all[k].id = id
    THEN all[CHOOSE k \in 1..Len(all) : all[k].id = id]
    ELSE NoInvoice

\* fs.unlink(path) that succeeds, or finds no file (ENOENT, taken as success)
RemoveFile(dir, name) == [n \in DOMAIN dir \ {name} |-> dir[n]]

\* Which artifact files of the record with this id exist (history, for the claims)
ArtifactsOf(id) ==
    LET inv == FindInvoice(metadataFile, id)
    IN  IF inv = NoInvoice THEN {}
        ELSE {k \in {"xml", "html", "pdf"} :
                \/ k = "xml" /\ Exists(xmlDir, inv.xmlPath)
                \/ k = "html" /\ Exists(htmlDir, inv.htmlPath)
                \/ k = "pdf" /\ Exists(pdfDir, inv.pdfPath)}

\* The request arrives: storage.getInvoice(id) is called, readAll answers from
\* the cache or starts reading the metadata file
DeleteStart(r, id) ==
    /\ r \notin DOMAIN deletes
    /\ deletes' = deletes @@ (r :>
          [id |-> id, pc |-> "getInvoice",
           all |-> IF cacheInitialized THEN invoiceCache ELSE metadataFile,
           fromDisk |-> ~cacheInitialized,
           invoice |-> NoInvoice,
           had |-> ArtifactsOf(id),
           status |-> 0])
    /\ UNCHANGED <<storeVars, dirVars, jobVars, files, responses, renderVars>>

\* The error of this call is answered with its status
DeleteFail(r, status) ==
    deletes' = [deletes EXCEPT ![r].pc = "failed", ![r].status = status]

\* await storage.getInvoice(id); 404 when there is no such record
DeleteGetInvoice(r) ==
    /\ r \in DOMAIN deletes
    /\ deletes[r].pc = "getInvoice"
    /\ IF deletes[r].fromDisk
       THEN invoiceCache' = deletes[r].all /\ cacheInitialized' = TRUE
       ELSE UNCHANGED <<invoiceCache, cacheInitialized>>
    /\ LET invoice == FindInvoice(deletes[r].all, deletes[r].id) IN
        IF invoice = NoInvoice
        THEN DeleteFail(r, 404)
        ELSE deletes' = [deletes EXCEPT ![r].pc = "unlinkXml", ![r].invoice = invoice]
    /\ UNCHANGED <<metadataFile, dirVars, jobVars, files, responses, renderVars>>

\* await removeInvoiceFile(path.join(XML_DIR, invoice.xmlPath))
DeleteUnlinkXml(r) ==
    /\ r \in DOMAIN deletes
    /\ deletes[r].pc = "unlinkXml"
    /\ \E ok \in BOOLEAN :
        IF ok
        THEN /\ xmlDir' = RemoveFile(xmlDir, deletes[r].invoice.xmlPath)
             /\ deletes' = [deletes EXCEPT ![r].pc = "unlinkHtml"]
        ELSE /\ DeleteFail(r, 500)
             /\ UNCHANGED xmlDir
    /\ UNCHANGED <<storeVars, htmlDir, pdfDir, jobVars, files, responses, renderVars>>

\* if (invoice.htmlPath) await removeInvoiceFile(path.join(HTML_DIR, invoice.htmlPath))
DeleteUnlinkHtml(r) ==
    /\ r \in DOMAIN deletes
    /\ deletes[r].pc = "unlinkHtml"
    /\ \E ok \in BOOLEAN :
        IF ok
        THEN /\ htmlDir' = RemoveFile(htmlDir, deletes[r].invoice.htmlPath)
             /\ deletes' = [deletes EXCEPT ![r].pc = "unlinkPdf"]
        ELSE /\ DeleteFail(r, 500)
             /\ UNCHANGED htmlDir
    /\ UNCHANGED <<storeVars, xmlDir, pdfDir, jobVars, files, responses, renderVars>>

\* if (invoice.pdfPath) await removeInvoiceFile(...); then storage.deleteInvoice(id)
\* is entered: readAll copies the cache
DeleteUnlinkPdf(r) ==
    /\ r \in DOMAIN deletes
    /\ deletes[r].pc = "unlinkPdf"
    /\ \E ok \in BOOLEAN :
        IF ok
        THEN /\ pdfDir' = RemoveFile(pdfDir, deletes[r].invoice.pdfPath)
             /\ deletes' = [deletes EXCEPT ![r].pc = "deleteInvoice", ![r].all = invoiceCache]
        ELSE /\ DeleteFail(r, 500)
             /\ UNCHANGED pdfDir
    /\ UNCHANGED <<storeVars, xmlDir, htmlDir, jobVars, files, responses, renderVars>>

\* storage.deleteInvoice: filter, writeAll(next) when a record went; 404 when none did
DeleteRecord(r) ==
    /\ r \in DOMAIN deletes
    /\ deletes[r].pc = "deleteInvoice"
    /\ LET all == deletes[r].all
           next == SelectSeq(all, LAMBDA i : i.id # deletes[r].id)
       IN  IF Len(next) # Len(all)
           THEN \E ok \in BOOLEAN :
                   IF ok
                   THEN /\ metadataFile' = next
                        /\ invoiceCache' = next
                        /\ deletes' = [deletes EXCEPT ![r].pc = "done", ![r].status = 200]
                   ELSE /\ DeleteFail(r, 500)
                        /\ UNCHANGED <<metadataFile, invoiceCache>>
           ELSE /\ DeleteFail(r, 404)
                /\ UNCHANGED <<metadataFile, invoiceCache>>
    /\ UNCHANGED <<cacheInitialized, dirVars, jobVars, files, responses, renderVars>>

-----------------------------------------------------------------------------
(* html-to-pdf.ts: the shared browser, one action per await.               *)

\* browserInstance && browserInstance.connected
Connected == browserInstance # 0 /\ browsers[browserInstance]

\* generatePDFFromHTML is called; getBrowser returns the connected browser, on
\* which newPage() is called, or calls puppeteer.launch()
StartRender(c) ==
    /\ c \notin DOMAIN calls
    /\ calls' = calls @@ (c :> IF Connected
                               THEN [pc |-> "newPage", browser |-> browserInstance]
                               ELSE [pc |-> "launch", browser |-> 0])
    /\ UNCHANGED <<browserInstance, browsers, shutdown>>
    /\ UNCHANGED pipelineVars

\* catch (error): throw new Error('Failed to generate PDF from HTML')
RenderFails(c) == calls' = [calls EXCEPT ![c].pc = "failed"]

\* puppeteer.launch() has settled: browserInstance is set to the new browser, the
\* 'disconnected' listener is put on it, and newPage() is called on it
Launched(c) ==
    /\ c \in DOMAIN calls
    /\ calls[c].pc = "launch"
    /\ \E ok \in BOOLEAN :
        IF ok
        THEN /\ browsers' = Append(browsers, TRUE)
             /\ browserInstance' = Len(browsers) + 1
             /\ calls' = [calls EXCEPT ![c] = [pc |-> "newPage",
                                               browser |-> Len(browsers) + 1]]
        ELSE /\ RenderFails(c)
             /\ UNCHANGED <<browserInstance, browsers>>
    /\ UNCHANGED shutdown
    /\ UNCHANGED pipelineVars

\* What follows each await of generatePDFFromHTML
AfterAwait(pc) ==
    CASE pc = "newPage" -> "setContent"
      [] pc = "setContent" -> "pdf"
      [] pc = "pdf" -> "closePage"
      [] pc = "closePage" -> "done"

\* A puppeteer whose operations never settle once the browser is gone
RenderWaits(c) ==
    /\ c \in DOMAIN calls
    /\ calls[c].pc \in {"newPage", "setContent", "pdf", "closePage"}
    /\ \E ok \in BOOLEAN :
        IF browsers[calls[c].browser]
        THEN IF ok
             THEN calls' = [calls EXCEPT ![c].pc = AfterAwait(calls[c].pc)]
             ELSE RenderFails(c)
        ELSE UNCHANGED calls
    /\ UNCHANGED <<browserInstance, browsers, shutdown>>
    /\ UNCHANGED pipelineVars

\* browser.newPage(), page.setContent(), page.pdf() or page.close() has settled:
\* with an error when the browser is gone, with an error or a value otherwise
Render(c) ==
    /\ c \in DOMAIN calls
    /\ calls[c].pc \in {"newPage", "setContent", "pdf", "closePage"}
    /\ \E ok \in BOOLEAN :
        IF ok /\ browsers[calls[c].browser]
        THEN calls' = [calls EXCEPT ![c].pc = AfterAwait(calls[c].pc)]
        ELSE RenderFails(c)
    /\ UNCHANGED <<browserInstance, browsers, shutdown>>
    /\ UNCHANGED pipelineVars

\* Browser b loses its connection (it crashed, or close() was called on it); its
\* listener runs: browserInstance = null
BrowserDisconnected(b) ==
    /\ b \in DOMAIN browsers
    /\ browsers[b]
    /\ browsers' = [browsers EXCEPT ![b] = FALSE]
    /\ browserInstance' = 0
    /\ UNCHANGED <<calls, shutdown>>
    /\ UNCHANGED pipelineVars

\* closeBrowser is called: browserInstance.close() if the browser is connected
CloseBrowser ==
    /\ shutdown.pc = "idle"
    /\ shutdown' = IF Connected
                   THEN [pc |-> "close", browser |-> browserInstance]
                   ELSE [pc |-> "done", browser |-> 0]
    /\ UNCHANGED <<browserInstance, browsers, calls>>
    /\ UNCHANGED pipelineVars

\* browserInstance.close() has settled, the browser being gone: browserInstance = null
CloseBrowserDone ==
    /\ shutdown.pc = "close"
    /\ ~browsers[shutdown.browser]
    /\ shutdown' = [shutdown EXCEPT !.pc = "done"]
    /\ browserInstance' = 0
    /\ UNCHANGED <<browsers, calls>>
    /\ UNCHANGED pipelineVars

-----------------------------------------------------------------------------
(* Inputs.                                                                 *)

Number1 == <<"1", "-", "A">>
Date1 == <<"2", "4", "-", "0", "1">>

\* Two suppliers that issued an invoice with the same number on the same day,
\* the first without a fiscal code.
DataA == InvoiceData(Number1, Date1, "IT01", Null)
DataB == InvoiceData(Number1, Date1, "IT02", "CF02")

\* A file of the request as multer hands it over; the sizes that matter are
\* those around the limit, every other upload is one byte long
Upload(name, buffer) == [originalname |-> name, buffer |-> buffer, size |-> 1]

\* A signed invoice, an envelope holding no XML, and an XML file that is no invoice
PipeUploads ==
    {Upload("c.p7m", Invoice(DataA)),
     Upload("D.P7M", Garbage),
     Upload("e.xml", Corrupt)}

\* The invoices of the two suppliers, as plain XML
RaceUploads ==
    {Upload("a.xml", Invoice(DataA)),
     Upload("b.xml", Invoice(DataB))}

\* The sequences over S of length 1..n
Batches(S, n) == UNION {[1..k -> S] : k \in 1..n}

FileCount == Cardinality(DOMAIN files)
JobCount == Cardinality(DOMAIN progress)

-----------------------------------------------------------------------------
(* The pipeline alone: batches of uploads, no subscriber.                  *)

Init ==
    /\ cacheInitialized = FALSE
    /\ invoiceCache = <<>>
    /\ metadataFile = <<>>
    /\ xmlDir = <<>>
    /\ htmlDir = <<>>
    /\ pdfDir = <<>>
    /\ uploadJobs = {}
    /\ progress = <<>>
    /\ files = <<>>
    /\ subs = <<>>
    /\ emitted = <<>>
    /\ responses = <<>>
    /\ deletes = <<>>
    /\ browserInstance = 0
    /\ browsers = <<>>
    /\ calls = <<>>
    /\ shutdown = [pc |-> "idle", browser |-> 0]

\* A batch arrives; the job id is fresh (the k-th job is named k)
SubmitFrom(uploads, maxFiles) ==
    \E ups \in Batches(uploads, maxFiles - FileCount) : Submit(JobCount + 1, ups)

SubmitBatch == SubmitFrom(PipeUploads, MaxFiles)

ExtractStep == \E f \in DOMAIN files : Extract(f)
ParseStep == \E f \in DOMAIN files : Parse(f)
ReadAllStep == \E f \in DOMAIN files : ReadAllFromDisk(f)
StatXmlStep == \E f \in DOMAIN files : StatXml(f)
StatHtmlStep == \E f \in DOMAIN files : StatHtml(f)
StatPdfStep == \E f \in DOMAIN files : StatPdf(f)
WriteXmlStep == \E f \in DOMAIN files : WriteXml(f)
ToHtmlStep == \E f \in DOMAIN files : ToHtml(f)
WriteHtmlStep == \E f \in DOMAIN files : WriteHtml(f)
ToPdfStep == \E f \in DOMAIN files : ToPdf(f)
WritePdfStep == \E f \in DOMAIN files : WritePdf(f)
CreateInvoiceStep == \E f \in DOMAIN files : CreateInvoice(f)
FinalizeStep == \E j \in DOMAIN progress : Finalize(j)
ExpireStep == \E j \in uploadJobs : ExpireJob(j)

FileStep ==
    \/ ExtractStep \/ ParseStep \/ ReadAllStep
    \/ StatXmlStep \/ StatHtmlStep \/ StatPdfStep
    \/ WriteXmlStep \/ ToHtmlStep \/ WriteHtmlStep \/ ToPdfStep \/ WritePdfStep
    \/ CreateInvoiceStep

\* uploadJobs is read by the progress endpoint only, so the grace timer is left
\* to the runs with subscribers.
Next == SubmitBatch \/ FileStep \/ FinalizeStep

Spec == Init /\ [][Next]_vars

\* Every pending I/O completes and Promise.all resolves; clients owe no upload
FairPipeSpec ==
    /\ Spec
    /\ WF_vars(FileStep)
    /\ WF_vars(FinalizeStep)

-----------------------------------------------------------------------------
(* The pipeline on the invoices of two suppliers that share number and date. *)

SubmitRace == SubmitFrom(RaceUploads, MaxFiles)

RaceFileStep ==
    \/ ParseStep \/ ReadAllStep
    \/ StatXmlStep \/ StatHtmlStep \/ StatPdfStep
    \/ WriteXmlStep \/ ToHtmlStep \/ WriteHtmlStep \/ ToPdfStep \/ WritePdfStep
    \/ CreateInvoiceStep

RaceNext == SubmitRace \/ RaceFileStep \/ FinalizeStep

RaceSpec == Init /\ [][RaceNext]_vars

-----------------------------------------------------------------------------
(* The pipeline with SSE subscribers and the grace timer.                  *)

SubUploads ==
    {Upload("a.xml", Invoice(DataA)),
     Upload("e.xml", Corrupt)}

SubmitSub == SubmitFrom(SubUploads, SubFiles)

\* A client opens a connection for some job id, known to the server or not
\* (at most SubFiles jobs exist, so the id SubFiles + 1 is never a job's)
SubscribeStep ==
    /\ Cardinality(DOMAIN subs) < MaxSubs
    /\ \E j \in 1..SubFiles + 1 : Subscribe(Cardinality(DOMAIN subs) + 1, j)

CloseTimerStep == \E s \in DOMAIN subs : CloseTimer(s)
DisconnectStep == \E s \in DOMAIN subs : Disconnect(s)

SubFileStep ==
    \/ ParseStep \/ ReadAllStep
    \/ StatXmlStep \/ StatHtmlStep \/ StatPdfStep
    \/ WriteXmlStep \/ ToHtmlStep \/ WriteHtmlStep \/ ToPdfStep \/ WritePdfStep
    \/ CreateInvoiceStep

\* What the server does on its own, and what clients do
ServerNext == SubFileStep \/ FinalizeStep \/ ExpireStep \/ CloseTimerStep
ClientNext == SubmitSub \/ SubscribeStep \/ DisconnectStep

SubNext == ServerNext \/ ClientNext

SubSpec == Init /\ [][SubNext]_vars

\* Every pending I/O completes and every armed timer fires; clients owe nothing
FairSpec ==
    /\ SubSpec
    /\ WF_vars(SubFileStep)
    /\ WF_vars(FinalizeStep)
    /\ WF_vars(ExpireStep)
    /\ WF_vars(CloseTimerStep)

-----------------------------------------------------------------------------
(* The duplicate check on its own: a store that already holds records, one  *)
(* uploaded invoice, and the pipeline up to the check.                      *)

Number2 == <<"2", "-", "A">>
Date2 == <<"2", "4", "-", "0", "2">>

DupData ==
    {InvoiceData(n, d, v, c) :
        n \in {Number1, Number2}, d \in {Date1, Date2},
        v \in {"IT01", "IT02", Null}, c \in {"CF01", "CF02", Null}}

\* A record an earlier run stored for invoice d
StoredInvoice(k, d) ==
    [id |-> <<0, k>>,
     filename |-> "old.xml",
     originalFormat |-> "xml",
     invoiceNumber |-> d.invoiceNumber,
     invoiceDate |-> d.invoiceDate,
     supplierVat |-> d.supplierVat,
     supplierFiscalCode |-> d.supplierFiscalCode,
     status |-> "not_printed",
     marked |-> FALSE,
     xmlPath |-> xmlFilename(d),
     htmlPath |-> htmlFilename(d),
     pdfPath |-> pdfFilename(d)]

DupStores ==
    UNION {{[k \in 1..n |-> StoredInvoice(k, ds[k])] : ds \in [1..n -> DupData]} :
              n \in 0..MaxExisting}

\* The server starts on a store left by earlier runs; the cache may already hold it
DupInit ==
    /\ metadataFile \in DupStores
    /\ cacheInitialized \in BOOLEAN
    /\ invoiceCache = IF cacheInitialized THEN metadataFile ELSE <<>>
    /\ xmlDir = <<>>
    /\ htmlDir = <<>>
    /\ pdfDir = <<>>
    /\ uploadJobs = {}
    /\ progress = <<>>
    /\ files = <<>>
    /\ subs = <<>>
    /\ emitted = <<>>
    /\ responses = <<>>
    /\ deletes = <<>>
    /\ browserInstance = 0
    /\ browsers = <<>>
    /\ calls = <<>>
    /\ shutdown = [pc |-> "idle", browser |-> 0]

SubmitDup ==
    /\ FileCount = 0
    /\ \E d \in DupData : Submit(1, <<Upload("a.xml", Invoice(d))>>)

DupNext == SubmitDup \/ ParseStep \/ ReadAllStep

DupSpec == DupInit /\ [][DupNext]_vars

-----------------------------------------------------------------------------
(* The same upload sent again and again, each time after the run before   *)
(* has ended, while somebody edits artifact files outside the application. *)

SeqUploads ==
    {Upload("a.xml", Invoice(DataA)),
     Upload("c.p7m", Invoice(DataA))}

AllRunsEnded == \A j \in DOMAIN progress : IsTerminal(progress[j])

\* The k-th run is job k, a batch of the one file the first run was given
SubmitAgain ==
    /\ JobCount < MaxRuns
    /\ AllRunsEnded
    /\ \E up \in SeqUploads :
        /\ JobCount > 0 =>
              up = Upload(files[<<1, 1>>].originalname, files[<<1, 1>>].buffer)
        /\ Submit(JobCount + 1, <<up>>)

\* What an artifact file holds after it was edited by hand
Edited == [edited |-> TRUE]

EditIn(dir) == {[dir EXCEPT ![n] = Edited] : n \in {m \in DOMAIN dir : dir[m] # Edited}}

EditArtifact ==
    /\ \/ xmlDir' \in EditIn(xmlDir) /\ UNCHANGED <<htmlDir, pdfDir>>
       \/ htmlDir' \in EditIn(htmlDir) /\ UNCHANGED <<xmlDir, pdfDir>>
       \/ pdfDir' \in EditIn(pdfDir) /\ UNCHANGED <<xmlDir, htmlDir>>
    /\ UNCHANGED <<storeVars, jobVars, files>>
    /\ UNCHANGED <<reqVars, renderVars>>

SeqNext == SubmitAgain \/ FileStep \/ FinalizeStep \/ EditArtifact

SeqSpec == Init /\ [][SeqNext]_vars

-----------------------------------------------------------------------------
(* Upload requests that are refused, around one that is accepted.          *)

Sized(up, n) == [up EXCEPT !.size = n]

\* No file; one file too large; a good file and one too large; a file of
\* exactly the limit; a file that is no invoice file; one file too many
ReqBodies ==
    {<<>>,
     <<Sized(Upload("a.xml", Invoice(DataA)), MaxFileSize + 1)>>,
     <<Upload("a.xml", Invoice(DataA)), Sized(Upload("e.xml", Corrupt), MaxFileSize + 1)>>,
     <<Sized(Upload("a.xml", Invoice(DataA)), MaxFileSize)>>,
     <<Upload("f.pdf", Garbage)>>,
     [i \in 1..(MaxBatch + 1) |-> Upload("a.xml", Invoice(DataA))]}

RejectStep ==
    /\ Len(responses) < MaxRequests
    /\ \E body \in ReqBodies : RejectUpload(body)

\* One request of the run is accepted
SubmitReq ==
    /\ Len(responses) < MaxRequests
    /\ FileCount = 0
    /\ \E body \in ReqBodies : Submit(JobCount + 1, body)

ReqNext == RejectStep \/ SubmitReq \/ SubFileStep \/ FinalizeStep

ReqSpec == Init /\ [][ReqNext]_vars

-----------------------------------------------------------------------------
(* One upload, and delete requests at any time.                            *)

SubmitDel ==
    /\ FileCount = 0
    /\ Submit(1, <<Upload("a.xml", Invoice(DataA))>>)

\* The ids asked for: that of the upload's record, and one no record has
DeleteIds == {<<1, 1>>, <<0, 0>>}

DeleteStartStep ==
    /\ Cardinality(DOMAIN deletes) < MaxDeletes
    /\ \E id \in DeleteIds : DeleteStart(Cardinality(DOMAIN deletes) + 1, id)

DeleteGetInvoiceStep == \E r \in DOMAIN deletes : DeleteGetInvoice(r)
DeleteUnlinkXmlStep == \E r \in DOMAIN deletes : DeleteUnlinkXml(r)
DeleteUnlinkHtmlStep == \E r \in DOMAIN deletes : DeleteUnlinkHtml(r)
DeleteUnlinkPdfStep == \E r \in DOMAIN deletes : DeleteUnlinkPdf(r)
DeleteRecordStep == \E r \in DOMAIN deletes : DeleteRecord(r)

DeleteStep ==
    \/ DeleteStartStep \/ DeleteGetInvoiceStep
    \/ DeleteUnlinkXmlStep \/ DeleteUnlinkHtmlStep \/ DeleteUnlinkPdfStep
    \/ DeleteRecordStep

DelNext == SubmitDel \/ SubFileStep \/ FinalizeStep \/ DeleteStep

DelSpec == Init /\ [][DelNext]_vars

-----------------------------------------------------------------------------
(* The invoices of two suppliers that share number and date, one uploaded  *)
(* after the other, and delete requests at any time.                       *)

SubmitShare ==
    /\ FileCount < 2
    /\ AllRunsEnded
    /\ \E up \in RaceUploads :
        /\ up.originalname = (IF FileCount = 0 THEN "a.xml" ELSE "b.xml")
        /\ Submit(JobCount + 1, <<up>>)

ShareNext == SubmitShare \/ RaceFileStep \/ FinalizeStep \/ DeleteStep

ShareSpec == Init /\ [][ShareNext]_vars

-----------------------------------------------------------------------------
(* Base names: two invoices of any number and date, the second uploaded    *)
(* once the first is stored.                                               *)

NameChars == {"A", "1", "-", " "}
NameNumbers == UNION {[1..n -> NameChars] : n \in 1..MaxLen}
NameDates == {Date1, <<"2", "4", "0", "1">>, <<"2", "4", "/", "0", "1">>}
NameData == {InvoiceData(num, date, "IT01", Null) : num \in NameNumbers, date \in NameDates}

SubmitName ==
    /\ FileCount < 2
    /\ AllRunsEnded
    /\ FileCount = 1 => files[<<1, 1>>].pc = "done"
    /\ \E d \in NameData : Submit(JobCount + 1, <<Upload("a.xml", Invoice(d))>>)

NameNext == SubmitName \/ RaceFileStep \/ FinalizeStep

NameSpec == Init /\ [][NameNext]_vars

-----------------------------------------------------------------------------
(* Signed envelopes of every make, up to the duplicate check.              *)

Texts == {Text(decl, root) : decl \in BOOLEAN, root \in BOOLEAN}

RawBytes ==
    [decl : BOOLEAN, root : BOOLEAN, close : {"none", "plain", "p", "other"}]

\* A buffer is DER or PEM armour: when the DER parse goes through, the PEM parse
\* finds no armour or throws; the attributes are searched in a parsed DER only
Envelopes ==
    {SignedEnvelope(der, pem, attr, raw, DataA) :
        der \in {Throws, Empty} \cup Texts,
        pem \in {NoArmor, Throws, Empty} \cup Texts,
        attr \in {Empty, Text(TRUE, TRUE)},
        raw \in RawBytes}

Feasible(b) ==
    /\ b.der # Throws => b.pem \in {NoArmor, Throws}
    /\ b.der = Throws => b.attr = Empty

SubmitEnvelope ==
    /\ FileCount = 0
    /\ \E b \in Envelopes :
        /\ Feasible(b)
        /\ Submit(1, <<Upload("c.p7m", b)>>)

ExtractNext == SubmitEnvelope \/ ExtractStep \/ ParseStep \/ ReadAllStep

ExtractSpec == Init /\ [][ExtractNext]_vars

-----------------------------------------------------------------------------
(* One XML upload whose amounts are missing, empty, or not numbers.        *)

ElementTexts == {Absent, Blank, Numeral(0), Numeral(2), Prefixed(2), Word}

\* Documents that differ from the plain one in one element
Documents ==
    {[PlainDocument EXCEPT ![e] = text] : e \in NumericElements, text \in ElementTexts}

SubmitDocument ==
    /\ FileCount = 0
    /\ \E doc \in Documents : Submit(1, <<Upload("a.xml", Document(DataA, doc))>>)

ParseNext == SubmitDocument \/ SubFileStep \/ FinalizeStep

ParseSpec == Init /\ [][ParseNext]_vars

-----------------------------------------------------------------------------
(* Render calls that overlap, browsers that crash, and the shutdown.       *)

\* The k-th call of generatePDFFromHTML is named k
StartRenderStep ==
    /\ Cardinality(DOMAIN calls) < MaxCalls
    /\ StartRender(Cardinality(DOMAIN calls) + 1)

LaunchedStep == \E c \in DOMAIN calls : Launched(c)
RenderStep == \E c \in DOMAIN calls : Render(c)
DisconnectedStep == \E b \in DOMAIN browsers : BrowserDisconnected(b)

RenderNext ==
    \/ StartRenderStep \/ LaunchedStep \/ RenderStep
    \/ DisconnectedStep \/ CloseBrowser \/ CloseBrowserDone

RenderSpec == Init /\ [][RenderNext]_vars

\* Every operation asked of puppeteer settles, and a browser that close() was
\* called on goes; no browser owes a crash, no client owes a call
FairRenderSpec ==
    /\ RenderSpec
    /\ WF_vars(LaunchedStep)
    /\ WF_vars(RenderStep)
    /\ WF_vars(shutdown.pc = "close" /\ BrowserDisconnected(shutdown.browser))
    /\ WF_vars(CloseBrowserDone)

-----------------------------------------------------------------------------
(* Several jobs at once, of files that fail at their first step, and        *)
(* connections for any of them or for a job nobody created.                *)

JobUploads ==
    {Upload("D.P7M", Garbage),
     Upload("e.xml", Corrupt)}

SubmitJob == SubmitFrom(JobUploads, MaxFiles)

SubscribeAnyStep ==
    /\ Cardinality(DOMAIN subs) < MaxSubs
    /\ \E j \in 1..MaxFiles + 1 : Subscribe(Cardinality(DOMAIN subs) + 1, j)

JobsNext ==
    \/ SubmitJob \/ ExtractStep \/ ParseStep \/ FinalizeStep \/ ExpireStep
    \/ SubscribeAnyStep \/ CloseTimerStep \/ DisconnectStep

JobsSpec == Init /\ [][JobsNext]_vars

-----------------------------------------------------------------------------
(* Claims about the pipeline.                                              *)

\* The composite business key of section 3 of the specification
SameKey(a, b) ==
    /\ a.invoiceNumber = b.invoiceNumber
    /\ a.invoiceDate = b.invoiceDate
    /\ \/ a.supplierVat = b.supplierVat
       \/ a.supplierFiscalCode = b.supplierFiscalCode

\* C1: the record store never holds two invoice records with equal invoiceNumber,
\* equal invoiceDate and (equal supplierVat or equal supplierFiscalCode).
C1_NoTwoRecordsShareKey ==
    \A a, b \in 1..Len(metadataFile) :
        a # b => ~SameKey(metadataFile[a], metadataFile[b])

\* C2: once an artifact file exists, no step of the upload pipeline changes its
\* content.
C2_ExistingArtifactNeverChanged ==
    [][/\ \A n \in DOMAIN xmlDir : xmlDir'[n] = xmlDir[n]
       /\ \A n \in DOMAIN htmlDir : htmlDir'[n] = htmlDir[n]
       /\ \A n \in DOMAIN pdfDir : pdfDir'[n] = pdfDir[n]]_vars

FailedFiles(j) == {f \in FilesOf(j) : files[f].pc = "failed"}
DoneFiles(j) == {f \in FilesOf(j) : files[f].pc = "done"}

\* How often name occurs as the filename of an entry of errors
CountIn(errors, name) ==
    Cardinality({k \in 1..Len(errors) : errors[k].filename = name})

\* C3: in a terminal snapshot of a batch of n files of which k failed, results has
\* n - k entries and errors has k entries, and the filenames in errors are exactly
\* those of the failed files (as often as they failed); the files that did not
\* fail ran to their record, whatever happened to their siblings.
C3_FailureIsolation ==
    \A j \in DOMAIN progress :
        IsTerminal(progress[j]) =>
            LET p == progress[j]
                k == Cardinality(FailedFiles(j))
            IN  /\ Cardinality(FilesOf(j)) = p.total
                /\ Len(p.errors) = k
                /\ Len(p.results) = p.total - k
                /\ \A f \in FilesOf(j) :
                      CountIn(p.errors, files[f].originalname) =
                          Cardinality({g \in FailedFiles(j) :
                              files[g].originalname = files[f].originalname})
                /\ \A e \in 1..Len(p.errors) :
                      \E f \in FailedFiles(j) : p.errors[e].filename = files[f].originalname
                /\ {p.results[r].id : r \in 1..Len(p.results)} = FilesOf(j) \ FailedFiles(j)
                /\ FilesOf(j) \ FailedFiles(j) = DoneFiles(j)

\* A batch ended with one file failed and its sibling stored
C3_Witness ==
    \E j \in DOMAIN progress :
        /\ IsTerminal(progress[j])
        /\ progress[j].total = 2
        /\ Len(progress[j].errors) = 1
        /\ Len(progress[j].results) = 1
        /\ \E f \in DoneFiles(j) : \E k \in 1..Len(metadataFile) : metadataFile[k].id = f

\* C4: a job's status is terminal only when every file of the batch has resolved;
\* it is "completed" iff at least one file succeeded and "failed" iff every file
\* failed.
C4_TerminalStatus ==
    \A j \in DOMAIN progress :
        IsTerminal(progress[j]) =>
            /\ \A f \in FilesOf(j) : Resolved(f)
            /\ Cardinality(FilesOf(j)) = progress[j].total
            /\ progress[j].status = "completed" <=> DoneFiles(j) # {}
            /\ progress[j].status = "failed" <=> FilesOf(j) = FailedFiles(j)

\* A batch of two files ended "completed" although one of them failed
C4_Witness ==
    \E j \in DOMAIN progress :
        /\ progress[j].status = "completed"
        /\ FailedFiles(j) # {}
        /\ DoneFiles(j) # {}

\* File f stands where processFile evaluates isDuplicate, on list
AtDuplicateCheck(f) ==
    \/ files[f].pc = "parse" /\ parseOk(files[f].buffer) /\ cacheInitialized
    \/ files[f].pc = "readAll"

ListChecked(f) ==
    IF files[f].pc = "readAll" THEN getAllInvoices(files[f].all)
    ELSE getAllInvoices(invoiceCache)

HasRecord(f) ==
    \/ \E k \in 1..Len(metadataFile) : metadataFile[k].id = f
    \/ \E k \in 1..Len(invoiceCache) : invoiceCache[k].id = f

\* C10: a file the duplicate check rejects ends with an error entry carrying its
\* filename and the code DUPLICATE_INVOICE, having written no artifact and no
\* record; and a file gets an entry with that code only by that rejection.
C10_DuplicateRejection ==
    /\ [][\A f \in DOMAIN files :
            LET rejected == AtDuplicateCheck(f) /\ isDuplicate(ListChecked(f), Data(f))
                code == files'[f].result.code
            IN  /\ (rejected /\ files'[f] # files[f]) =>
                      /\ files'[f].pc = "failed"
                      /\ files'[f].result.filename = files[f].originalname
                      /\ code = "DUPLICATE_INVOICE"
                      /\ UNCHANGED <<dirVars, metadataFile>>
                /\ (files[f].pc # "failed" /\ files'[f].pc = "failed"
                        /\ code = "DUPLICATE_INVOICE") => rejected]_vars
    /\ [](\A f \in DOMAIN files :
            (files[f].pc = "failed" /\ files[f].result.code = "DUPLICATE_INVOICE") =>
                /\ files[f].wrote = {}
                /\ ~HasRecord(f))
    /\ [](\A j \in DOMAIN progress : \A e \in 1..Len(progress[j].errors) :
            progress[j].errors[e].code = "DUPLICATE_INVOICE" =>
                \E g \in FailedFiles(j) :
                    /\ files[g].result = progress[j].errors[e]
                    /\ files[g].wrote = {})

\* A batch ended with one file stored and its copy rejected as a duplicate
C10_Witness ==
    \E j \in DOMAIN progress :
        /\ IsTerminal(progress[j])
        /\ \E e \in 1..Len(progress[j].errors) :
              progress[j].errors[e].code = "DUPLICATE_INVOICE"
        /\ Len(progress[j].results) = 1

-----------------------------------------------------------------------------
(* Claims about the duplicate check.                                       *)

\* C9: the duplicate check flags the uploaded invoice iff some record of the list
\* it reads has equal invoiceNumber and equal invoiceDate and (equal supplierVat or
\* equal supplierFiscalCode); equality is that of the stored values, so two absent
\* (null) fields are equal.
C9_DuplicateCheck ==
    [][\A f \in DOMAIN files :
          (AtDuplicateCheck(f) /\ files'[f] # files[f]) =>
              LET list == ListChecked(f)
                  d == files[f].buffer.data
                  flagged == files'[f].pc = "failed"
              IN  /\ flagged <=>
                        \E k \in 1..Len(list) :
                            /\ list[k].invoiceNumber = d.invoiceNumber
                            /\ list[k].invoiceDate = d.invoiceDate
                            /\ \/ list[k].supplierVat = d.supplierVat
                               \/ list[k].supplierFiscalCode = d.supplierFiscalCode
                  /\ ~flagged => files'[f].pc = "statXml"]_vars

\* An upload was flagged against a record that has its VAT number but another
\* fiscal code, the only record of the store
C9_Witness ==
    \E f \in DOMAIN files :
        /\ files[f].pc = "failed"
        /\ files[f].result.code = "DUPLICATE_INVOICE"
        /\ Len(metadataFile) = 1
        /\ metadataFile[1].supplierVat = Data(f).supplierVat
        /\ metadataFile[1].supplierFiscalCode # Data(f).supplierFiscalCode

-----------------------------------------------------------------------------
(* Claims about the progress endpoint.                                     *)

\* C5: every accepted batch eventually reaches a terminal status.
C5_JobTerminates ==
    \A j \in 1..SubFiles :
        (j \in DOMAIN progress) ~> (j \in DOMAIN progress /\ IsTerminal(progress[j]))

\* A batch whose file failed is terminal, with a subscriber gone and one connected
C5_Witness ==
    \E j \in DOMAIN progress :
        /\ progress[j].status = "failed"
        /\ \E s \in DOMAIN subs : subs[s].jobId = j /\ subs[s].closedBy = "client"
        /\ \E s \in DOMAIN subs : subs[s].jobId = j /\ subs[s].listening

\* The job of connection s was in the job table when s connected
ToExistingJob(s) == subs[s].received[1] # JobNotFound

GotTerminal(s) ==
    \E k \in 1..Len(subs[s].received) :
        /\ subs[s].received[k] # JobNotFound
        /\ IsTerminal(subs[s].received[k])

\* Connection s is over: the server ended it after a terminal snapshot, or the
\* client left
ClosedAfterTerminal(s) ==
    /\ s \in DOMAIN subs
    /\ \/ subs[s].closedBy = "client"
       \/ subs[s].closedBy = "server" /\ GotTerminal(s)

\* C6: every connection opened for an existing job is eventually closed by the
\* server after a terminal snapshot was sent on it (unless the client leaves
\* first).
C6_SubscriptionClosed ==
    \A s \in 1..MaxSubs :
        (s \in DOMAIN subs /\ ToExistingJob(s)) ~> ClosedAfterTerminal(s)

\* What connection s must have been sent: the snapshot current when it connected,
\* then every snapshot emitted for its job since, up to n of them
Expected(s, n) ==
    LET j == subs[s].jobId
    IN  <<emitted[j][subs[s].since]>> \o SubSeq(emitted[j], subs[s].since + 1, n)

\* C7: a connection opened for a job of the job table is first sent exactly the
\* job's current snapshot and then every snapshot emitted for the job, in order,
\* as long as its listener is registered; after that it is sent nothing more.
C7_SubscriberStream ==
    \A s \in DOMAIN subs :
        ToExistingJob(s) =>
            LET j == subs[s].jobId IN
            /\ subs[s].since >= 1
            /\ IF subs[s].listening
               THEN subs[s].received = Expected(s, Len(emitted[j]))
               ELSE \E n \in subs[s].since..Len(emitted[j]) :
                        subs[s].received = Expected(s, n)

\* A connection opened while the file was being processed has been sent the
\* snapshot of that moment, the counter update and the terminal snapshot
C7_Witness ==
    \E s \in DOMAIN subs :
        /\ ToExistingJob(s)
        /\ Len(subs[s].received) = 3
        /\ subs[s].received[1].status = "processing"
        /\ subs[s].received[2].completed = 1
        /\ IsTerminal(subs[s].received[3])

\* Connection s is closed by its client in this step
Disconnects(s) ==
    /\ s \in DOMAIN subs
    /\ subs[s].closedBy = "nobody"
    /\ subs'[s].closedBy = "client"

\* C8: when a client disconnects, the other connections and the job are left as
\* they are, and every other connection still listening goes on being sent every
\* snapshot of its job.
C8_DisconnectIsolation ==
    /\ [][\A s \in DOMAIN subs :
            Disconnects(s) =>
                /\ \A t \in DOMAIN subs \ {s} : subs'[t] = subs[t]
                /\ DOMAIN subs' = DOMAIN subs
                /\ UNCHANGED <<progress, uploadJobs, files, emitted>>]_vars
    /\ [](\A s, t \in DOMAIN subs :
            (subs[s].closedBy = "client" /\ subs[t].listening /\ subs[t].jobId = subs[s].jobId
                /\ subs[t].jobId \in DOMAIN emitted) =>
                    /\ SubSeq(subs[t].received, 2, Len(subs[t].received)) =
                          SubSeq(emitted[subs[t].jobId], subs[t].since + 1,
                                 Len(emitted[subs[t].jobId]))
                    /\ progress[subs[t].jobId].completed + progress[subs[t].jobId].failed =
                          Cardinality({f \in FilesOf(subs[t].jobId) : Resolved(f)}))

\* One client left during processing; the other connection has since been sent
\* the counter update and the terminal snapshot
C8_Witness ==
    \E s, t \in DOMAIN subs :
        /\ subs[s].closedBy = "client"
        /\ subs[t].jobId = subs[s].jobId
        /\ ToExistingJob(s) /\ ToExistingJob(t)
        /\ Len(subs[s].received) = 1
        /\ Len(subs[t].received) >= 3
        /\ GotTerminal(t)

-----------------------------------------------------------------------------
(* Claims about repeated runs.                                             *)

\* The records of the store that carry the business key of d
RecordsOf(d) == {k \in 1..Len(metadataFile) : SameKey(metadataFile[k], d)}

\* Some run before job j stored the upload
StoredBefore(j) == \E i \in 1..(j - 1) : files[<<i, 1>>].pc = "done"

\* A step of the pipeline (not of somebody editing files) leaves every
\* artifact file that exists as it is
PipelineKeepsArtifacts ==
    files' # files =>
        /\ \A n \in DOMAIN xmlDir : xmlDir'[n] = xmlDir[n]
        /\ \A n \in DOMAIN htmlDir : htmlDir'[n] = htmlDir[n]
        /\ \A n \in DOMAIN pdfDir : pdfDir'[n] = pdfDir[n]

\* C11: when the same upload is run again after a run that stored it has ended,
\* the store holds exactly one record with its business key, the later run ends
\* as a duplicate, and no step of the later run creates or changes any artifact
\* file (so what was edited in between survives).
C11_SecondRunIdempotent ==
    /\ [](\A f \in DOMAIN files : Cardinality(RecordsOf(Data(f))) <= 1)
    /\ [](\A f \in DOMAIN files :
            (StoredBefore(f[1]) /\ Resolved(f)) =>
                /\ Cardinality(RecordsOf(Data(f))) = 1
                /\ files[f].pc = "failed"
                /\ files[f].result.code = "DUPLICATE_INVOICE"
                /\ files[f].wrote = {})
    /\ [][\A f \in DOMAIN files :
            (StoredBefore(f[1]) /\ files'[f] # files[f]) => UNCHANGED dirVars]_vars

\* The second run has ended after a stored first run, and the XML file edited
\* by hand is still as edited
C11_Witness ==
    /\ 2 \in DOMAIN progress
    /\ IsTerminal(progress[2])
    /\ files[<<1, 1>>].pc = "done"
    /\ Len(metadataFile) = 1
    /\ xmlDir[xmlFilename(Data(<<2, 1>>))] = Edited
    /\ htmlDir[htmlFilename(Data(<<2, 1>>))] # Edited

\* What the runs before job j have written
WrittenBefore(j) == UNION {files[<<i, 1>>].wrote : i \in 1..(j - 1)}

\* C12: a run that follows attempts which wrote only some of the three artifact
\* files and stored no record writes exactly the files that are missing and
\* leaves each file that exists untouched.
C12_RetryWritesMissingOnly ==
    /\ [](\A f \in DOMAIN files :
            ~StoredBefore(f[1]) =>
                /\ files[f].wrote \cap WrittenBefore(f[1]) = {}
                /\ files[f].pc \in {"createInvoice", "done"} =>
                      files[f].wrote = {"xml", "html", "pdf"} \ WrittenBefore(f[1]))
    /\ [][PipelineKeepsArtifacts]_vars

\* The first run wrote the XML file and failed; the retry wrote the other two
\* and stored the record, and the XML file edited in between is still as edited
C12_Witness ==
    /\ <<2, 1>> \in DOMAIN files
    /\ files[<<1, 1>>].pc = "failed"
    /\ files[<<1, 1>>].wrote = {"xml"}
    /\ files[<<2, 1>>].pc = "done"
    /\ files[<<2, 1>>].wrote = {"html", "pdf"}
    /\ xmlDir[xmlFilename(Data(<<2, 1>>))] = Edited

-----------------------------------------------------------------------------
(* Claims about terminal snapshots and the job table.                      *)

\* A snapshot with a terminal status carries both lists, and its counters are
\* their lengths and add up to total
ListsMatchCounters(p) ==
    IsTerminal(p) =>
        /\ p.hasLists
        /\ p.completed = Len(p.results)
        /\ p.failed = Len(p.errors)
        /\ p.completed + p.failed = p.total

\* C13: every snapshot with status completed or failed, whether emitted, sent to
\* a connection or held in the job table for the next connection, carries the
\* results and errors lists, with completed = number of results, failed = number
\* of errors and completed + failed = total.
C13_TerminalSnapshotLists ==
    /\ \A j \in DOMAIN emitted : \A k \in 1..Len(emitted[j]) :
          ListsMatchCounters(emitted[j][k])
    /\ \A j \in uploadJobs : ListsMatchCounters(progress[j])
    /\ \A s \in DOMAIN subs : \A k \in 1..Len(subs[s].received) :
          subs[s].received[k] # JobNotFound => ListsMatchCounters(subs[s].received[k])

\* A connection opened after the end of the job was first sent the terminal
\* snapshot, with the stored invoice in results
C13_Witness ==
    \E s \in DOMAIN subs :
        /\ ToExistingJob(s)
        /\ IsTerminal(subs[s].received[1])
        /\ Len(subs[s].received[1].results) = 1
        /\ subs[s].received[1].completed = 1

\* Connection s is opened in this step
Connects(s) == s \notin DOMAIN subs /\ s \in DOMAIN subs'

\* C14: a job is in the job table from its creation until it is terminal; it is
\* removed only when it is terminal, and once terminal it is eventually removed;
\* a connection opened while the terminal job is still in the table is sent the
\* final snapshot.
C14_JobRetention ==
    /\ [](\A j \in DOMAIN progress : ~IsTerminal(progress[j]) => j \in uploadJobs)
    /\ [][\A j \in uploadJobs :
            j \notin uploadJobs' => IsTerminal(progress[j]) /\ UNCHANGED progress]_vars
    /\ \A j \in 1..SubFiles :
          (j \in DOMAIN progress /\ IsTerminal(progress[j])) ~> (j \notin uploadJobs)
    /\ [][\A s \in 1..MaxSubs :
            Connects(s) =>
                LET j == subs'[s].jobId IN
                (j \in uploadJobs /\ IsTerminal(progress[j])) =>
                    /\ subs'[s].received = <<emitted[j][Len(emitted[j])]>>
                    /\ IsTerminal(subs'[s].received[1])]_vars

\* The job is gone from the table; a connection opened before that, after the
\* end of the job, holds the final snapshot and nothing else
C14_Witness ==
    \E s \in DOMAIN subs :
        /\ ToExistingJob(s)
        /\ subs[s].jobId \notin uploadJobs
        /\ subs[s].received = <<progress[subs[s].jobId]>>
        /\ IsTerminal(progress[subs[s].jobId])

-----------------------------------------------------------------------------
(* Claims about refused requests.                                          *)

\* The request has no file, or a file over the size limit
NoFileOrTooLarge(reqFiles) ==
    \/ Len(reqFiles) = 0
    \/ \E i \in 1..Len(reqFiles) : reqFiles[i].size > MaxFileSize

Accepted == {k \in 1..Len(responses) : responses[k].response.status = 202}

\* C15: an upload request with no file or with a file over the size limit is
\* answered with an error status, and answering it creates no job, emits no
\* progress event, starts no file and writes no artifact and no record; jobs
\* come from accepted requests only.
C15_RejectedSubmission ==
    /\ [](\A k \in 1..Len(responses) :
            NoFileOrTooLarge(responses[k].request) =>
                /\ responses[k].response.status >= 400
                /\ "jobId" \notin DOMAIN responses[k].response)
    /\ [](Cardinality(Accepted) = JobCount /\ JobCount = Cardinality(uploadJobs))
    /\ [][(/\ Len(responses') = Len(responses) + 1
           /\ NoFileOrTooLarge(responses'[Len(responses')].request)) =>
              UNCHANGED <<storeVars, dirVars, jobVars, files, deletes>>]_vars

\* While the file of the accepted request is being processed, a request with
\* no file and a request with a file too large have been refused
C15_Witness ==
    /\ Len(responses) = 3
    /\ responses[1].response.status = 202
    /\ responses[2].request = <<>>
    /\ responses[2].response.status = 400
    /\ Len(responses[3].request) = 2
    /\ responses[3].response.status = 500
    /\ JobCount = 1
    /\ \E f \in DOMAIN files : ~Resolved(f)

-----------------------------------------------------------------------------
(* Claims about deletion.                                                  *)

\* C16: after a delete request has been answered, with success or with an error,
\* either the record and its three artifact files are all gone, or the record
\* and every artifact file of it that existed before the request are all there.
C16_DeleteAllOrNothing ==
    \A r \in DOMAIN deletes :
        (deletes[r].pc \in {"done", "failed"} /\ deletes[r].invoice # NoInvoice) =>
            LET inv == deletes[r].invoice
                recordThere == FindInvoice(metadataFile, inv.id) # NoInvoice
            IN  \/ /\ ~recordThere
                   /\ ~Exists(xmlDir, inv.xmlPath)
                   /\ ~Exists(htmlDir, inv.htmlPath)
                   /\ ~Exists(pdfDir, inv.pdfPath)
                \/ /\ recordThere
                   /\ "xml" \in deletes[r].had => Exists(xmlDir, inv.xmlPath)
                   /\ "html" \in deletes[r].had => Exists(htmlDir, inv.htmlPath)
                   /\ "pdf" \in deletes[r].had => Exists(pdfDir, inv.pdfPath)

-----------------------------------------------------------------------------
(* Claims about the stored record.                                         *)

\* File f's record is written to the store in this step
RecordCreated(f) == files[f].pc = "createInvoice" /\ files'[f].pc = "done"

\* C17: every record the pipeline creates has status not_printed, marked false
\* and the paths <base name>.xml, .html, .pdf of its invoiceNumber and
\* invoiceDate, and when it is created all three files exist.
C17_RecordShape ==
    [][\A f \in DOMAIN files :
          RecordCreated(f) =>
              LET rec == metadataFile'[Len(metadataFile')] IN
              /\ rec.id = f
              /\ rec.status = "not_printed"
              /\ rec.marked = FALSE
              /\ rec.xmlPath = xmlFilename(rec)
              /\ rec.htmlPath = htmlFilename(rec)
              /\ rec.pdfPath = pdfFilename(rec)
              /\ Exists(xmlDir, rec.xmlPath)
              /\ Exists(htmlDir, rec.htmlPath)
              /\ Exists(pdfDir, rec.pdfPath)]_vars

-----------------------------------------------------------------------------
(* Claims about the base name.                                             *)

IsAlnum(c) == c \in Letters \cup Digits

\* The positions of the digits of date, and how many digits stand up to position i
DigitsUpTo(date, i) == Cardinality({k \in 1..i : date[k] \in Digits})

\* base is the number with every character outside [A-Za-z0-9] replaced by "_",
\* then "_", then the digits of the date in their order
IsBaseName(base, num, date) ==
    /\ Len(base) = Len(num) + 1 + DigitsUpTo(date, Len(date))
    /\ \A i \in 1..Len(num) : base[i] = (IF IsAlnum(num[i]) THEN num[i] ELSE "_")
    /\ base[Len(num) + 1] = "_"
    /\ \A i \in 1..Len(date) :
          date[i] \in Digits => base[Len(num) + 1 + DigitsUpTo(date, i)] = date[i]

\* Two numbers that differ only in which non-alphanumeric character stands at a
\* position
PunctuationTwins(a, b) ==
    /\ Len(a) = Len(b)
    /\ \A i \in 1..Len(a) : IF IsAlnum(a[i]) THEN b[i] = a[i] ELSE ~IsAlnum(b[i])

WithoutExt(path) == SubSeq(path, 1, Len(path) - 1)

\* C18: the base name of every stored record and of every artifact file is the
\* invoice number with each character outside [A-Za-z0-9] replaced by "_", then
\* "_", then the invoice date without its non-digits, whatever else the upload
\* holds; records whose numbers differ only in which non-alphanumeric character
\* stands at a position (and whose dates have the same digits) get the same
\* base name.
C18_BaseName ==
    /\ \A k \in 1..Len(metadataFile) :
          LET rec == metadataFile[k] IN
          /\ IsBaseName(WithoutExt(rec.xmlPath), rec.invoiceNumber, rec.invoiceDate)
          /\ rec.xmlPath = WithoutExt(rec.xmlPath) \o <<".xml">>
          /\ rec.htmlPath = WithoutExt(rec.xmlPath) \o <<".html">>
          /\ rec.pdfPath = WithoutExt(rec.xmlPath) \o <<".pdf">>
    /\ \A n \in DOMAIN xmlDir :
          \E f \in DOMAIN files :
              IsBaseName(WithoutExt(n), Data(f).invoiceNumber, Data(f).invoiceDate)
    /\ \A k, l \in 1..Len(metadataFile) :
          (/\ PunctuationTwins(metadataFile[k].invoiceNumber, metadataFile[l].invoiceNumber)
           /\ safeDate(metadataFile[k].invoiceDate) = safeDate(metadataFile[l].invoiceDate)) =>
              metadataFile[k].xmlPath = metadataFile[l].xmlPath

\* The records of A-, 24-01 and of "A ", 24/01 are stored under one base name
C18_Witness ==
    /\ Len(metadataFile) = 2
    /\ metadataFile[1].invoiceNumber = <<"A", "-">>
    /\ metadataFile[2].invoiceNumber = <<"A", " ">>
    /\ metadataFile[1].invoiceDate # metadataFile[2].invoiceDate
    /\ metadataFile[1].xmlPath = metadataFile[2].xmlPath
    /\ metadataFile[1].xmlPath = <<"A", "_", "_", "2", "4", "0", "1", ".xml">>

-----------------------------------------------------------------------------
(* Claims about extraction.                                                *)

\* The strategy's outcome is a text with an XML declaration or the root tag
YieldsXml(x) == IsText(x) /\ (x.decl \/ x.root)

\* The byte scan finds a start marker and a closing tag that goes with it
ScanYieldsXml(raw) ==
    \/ raw.decl /\ raw.close # "none"
    \/ raw.root /\ raw.close \in {"plain", "p"}

\* extractXMLFromP7M has returned or thrown for file f
ExtractionOver(f) ==
    /\ files[f].buffer.kind = "p7m"
    /\ files[f].pc # "extract"

-----------------------------------------------------------------------------
(* Claims about the parser.                                                *)

\* The field of the parsed invoice that is read from each element
NumericField(parsed, e) ==
    CASE e = "ImportoTotaleDocumento" -> parsed.totalAmount
      [] e = "ImponibileImporto" -> parsed.taxableAmount
      [] e = "Imposta" -> parsed.taxAmount
      [] e = "Quantita" -> parsed.lineItems[1].quantity
      [] e = "PrezzoUnitario" -> parsed.lineItems[1].unitPrice
      [] e = "PrezzoTotale" -> parsed.lineItems[1].total
      [] e = "AliquotaIVA" -> parsed.lineItems[1].vat
      [] e = "Percentuale" -> parsed.lineItems[1].discount
      [] e = "ImportoPagamento" -> parsed.paymentDetails[1].amount

\* parseFatturaPAXML has returned or thrown for the XML upload f
ParseOver(f) ==
    /\ files[f].buffer.kind = "xml"
    /\ files[f].pc # "parse"

\* C20: every numeric field of the parsed invoice (totalAmount, taxableAmount,
\* taxAmount; a line's quantity, unitPrice, total, vat and discount; a payment's
\* amount) is 0 when its element is absent and when the element's text is not a
\* number, and the parse does not fail in either case.
C20_NumericDefault ==
    \A f \in DOMAIN files :
        ParseOver(f) =>
            LET doc == files[f].buffer.doc
                parsed == parseFatturaPAXML(files[f].buffer)
            IN  \A e \in NumericElements :
                    doc[e] \in {Absent, Word} =>
                        /\ files[f].pc # "failed"
                        /\ parsed.ok
                        /\ NumericField(parsed, e) = Number(0)

\* C21: for every parsed line item, hasQuantity is true iff the source line has a
\* quantity element, whatever its value (an empty or a zero one included), and
\* hasTotalPrice is true iff the parsed total differs from zero; the parsed items
\* are those of the source lines, in their order.
C21_LineFlags ==
    \A f \in DOMAIN files :
        ParseOver(f) =>
            LET doc == files[f].buffer.doc
                parsed == parseFatturaPAXML(files[f].buffer)
            IN  /\ parsed.ok
                /\ Len(parsed.lineItems) = 1
                /\ parsed.lineItems[1].hasQuantity <=> doc["Quantita"] # Absent
                /\ parsed.lineItems[1].hasTotalPrice <=>
                       parsed.lineItems[1].total # Number(0)

-----------------------------------------------------------------------------
(* Claims about the order of the stages.                                   *)

\* The stage of the pipeline that a file is in, or is waiting to enter
Stage(pc) ==
    CASE pc = "extract" -> 1
      [] pc = "parse" -> 2
      [] pc = "readAll" -> 3
      [] pc \in {"statXml", "statHtml", "statPdf", "writeXml", "toHtml",
                 "writeHtml", "toPdf", "writePdf"} -> 4
      [] pc = "createInvoice" -> 5
      [] pc \in {"done", "failed"} -> 6

Directories == <<xmlDir, htmlDir, pdfDir>>

\* C22: within one file's pipeline the stages run in the order extraction,
\* parsing, duplicate check, artifact writes, record creation: a file moves to
\* a later stage or to failed, never back; the writes start only after parsing
\* and the duplicate check, the record is created only after the writes, and a
\* file ends as done only from record creation; a file that is failed (or done)
\* never moves again, and only a file in the stage of the writes (of record
\* creation) changes an artifact directory (the record store).
C22_StageOrder ==
    [][/\ \A f \in DOMAIN files :
            /\ f \in DOMAIN files'
            /\ files[f].pc \in {"done", "failed"} => files'[f] = files[f]
            /\ files'[f].pc # files[f].pc =>
                  /\ files'[f].pc = "failed" \/ Stage(files'[f].pc) >= Stage(files[f].pc)
                  /\ Stage(files'[f].pc) = 4 => Stage(files[f].pc) \in {2, 3, 4}
                  /\ Stage(files'[f].pc) = 5 => Stage(files[f].pc) = 4
                  /\ files'[f].pc = "done" => Stage(files[f].pc) = 5
       /\ Directories' # Directories =>
            \E f \in DOMAIN files : Stage(files[f].pc) = 4 /\ files'[f] # files[f]
       /\ metadataFile' # metadataFile =>
            \E f \in DOMAIN files : Stage(files[f].pc) = 5 /\ files'[f].pc = "done"
      ]_vars

\* A batch of two: one file failed in parsing, with no artifact and no record of
\* its own, and its sibling went through every stage
C22_Witness ==
    \E f, g \in DOMAIN files :
        /\ f[1] = g[1]
        /\ files[f].pc = "failed"
        /\ files[f].result.error = "Failed to parse FatturaPA XML"
        /\ files[f].wrote = {}
        /\ files[g].pc = "done"
        /\ files[g].wrote = {"xml", "html", "pdf"}

-----------------------------------------------------------------------------
(* Claims about the shared browser.                                        *)

\* Call c is handed its browser in this step
Obtains(c) ==
    /\ c \in DOMAIN calls'
    /\ calls'[c].browser # 0
    /\ c \notin DOMAIN calls \/ calls[c].browser = 0

\* Call c ends with an error in this step
FailsNow(c) ==
    /\ c \in DOMAIN calls
    /\ calls[c].pc # "failed"
    /\ calls'[c].pc = "failed"

Live(b) == b \in DOMAIN browsers /\ browsers[b]

Launching == {c \in DOMAIN calls : calls[c].pc = "launch"}

\* C29: every launched browser that is still connected is the one browserInstance
\* refers to; no second launch is started while one is in progress; and the
\* disconnection of a browser never clears the reference to another browser that
\* is connected.
C29_OneBrowser ==
    /\ [](\A b \in DOMAIN browsers : Live(b) => browserInstance = b)
    /\ [](Cardinality(Launching) <= 1)
    /\ [][\A b \in DOMAIN browsers :
            (Live(b) /\ ~browsers'[b] /\ browserInstance # b /\ Connected) =>
                browserInstance' = browserInstance]_vars

-----------------------------------------------------------------------------
(* Claims about the record store under concurrent writers.                 *)

\* Job j becomes terminal in this step
BecomesTerminal(j) == ~IsTerminal(progress[j]) /\ IsTerminal(progress'[j])

\* The records of the store that a file of job j created
StoredBy(j) ==
    {metadataFile[k] : k \in {i \in 1..Len(metadataFile) : metadataFile[i].id[1] = j}}

\* C24: when a batch reaches its terminal state, the records it added to the
\* store are exactly the records listed in results: every record a createInvoice
\* call of the batch returned is in the store, and no file listed in errors has
\* a record.
C24_NoLostRecord ==
    [][\A j \in DOMAIN progress :
          BecomesTerminal(j) =>
              /\ StoredBy(j) =
                    {progress'[j].results[k] : k \in DOMAIN progress'[j].results}
              /\ \A f \in FilesOf(j) :
                    files[f].pc = "failed" => \A rec \in StoredBy(j) : rec.id # f]_vars

\* C25: no two records of the store refer to the same artifact file: the
\* xmlPath, the htmlPath and the pdfPath of two distinct records differ, also for
\* the invoices of two suppliers that share number and date.
C25_DistinctArtifacts ==
    \A k, l \in 1..Len(metadataFile) :
        k # l =>
            /\ metadataFile[k].xmlPath # metadataFile[l].xmlPath
            /\ metadataFile[k].htmlPath # metadataFile[l].htmlPath
            /\ metadataFile[k].pdfPath # metadataFile[l].pdfPath

-----------------------------------------------------------------------------
(* Claims about the counters and the status of a job.                      *)

\* The files of job j that ended as pc
Ended(j, pc) == {f \in FilesOf(j) : files[f].pc = pc}

\* File f ends as pc in this step
EndsAs(f, pc) == files[f].pc # pc /\ files'[f].pc = pc

\* C26: completed and failed of a job never decrease; a file of the batch adds
\* one to completed when it ends as done and one to failed when it ends as failed,
\* and nothing else changes the counters, so each file is counted once, in one of
\* them; completed + failed <= total, with equality when the status is terminal.
C26_Counters ==
    /\ [](\A j \in DOMAIN progress :
            /\ progress[j].completed = Cardinality(Ended(j, "done"))
            /\ progress[j].failed = Cardinality(Ended(j, "failed"))
            /\ progress[j].completed + progress[j].failed <= progress[j].total
            /\ IsTerminal(progress[j]) =>
                  progress[j].completed + progress[j].failed = progress[j].total)
    /\ [][\A j \in DOMAIN progress :
            /\ progress'[j].completed >= progress[j].completed
            /\ progress'[j].failed >= progress[j].failed
            /\ progress'[j].total = progress[j].total
            /\ \A f \in FilesOf(j) :
                  /\ EndsAs(f, "done") =>
                        /\ progress'[j].completed = progress[j].completed + 1
                        /\ progress'[j].failed = progress[j].failed
                  /\ EndsAs(f, "failed") =>
                        /\ progress'[j].failed = progress[j].failed + 1
                        /\ progress'[j].completed = progress[j].completed
            /\ (\A f \in FilesOf(j) : files'[f].pc = files[f].pc) =>
                  /\ progress'[j].completed = progress[j].completed
                  /\ progress'[j].failed = progress[j].failed]_vars

\* A batch of two has ended with one file stored and the other failed
C26_Witness ==
    \E j \in DOMAIN progress :
        /\ IsTerminal(progress[j])
        /\ progress[j].total = 2
        /\ progress[j].completed = 1
        /\ progress[j].failed = 1

\* preparing -> processing -> completed | failed
StatusRank(status) ==
    CASE status = "preparing" -> 1
      [] status = "processing" -> 2
      [] status \in {"completed", "failed"} -> 3

\* C27: the status of a job only moves forward along preparing -> processing ->
\* (completed | failed); once a terminal snapshot has been emitted for a job no
\* further progress event is emitted for it and its snapshot never changes again;
\* exactly one terminal snapshot is emitted per job: never two, and in the end one.
C27_StatusForward ==
    /\ [](\A j \in DOMAIN emitted :
            LET e == emitted[j] IN
            /\ e[1].status = "preparing"
            /\ \A k, l \in 1..Len(e) :
                  k < l => /\ StatusRank(e[k].status) <= StatusRank(e[l].status)
                           /\ ~IsTerminal(e[k]))
    /\ [][\A j \in DOMAIN progress :
            /\ StatusRank(progress'[j].status) >= StatusRank(progress[j].status)
            /\ IsTerminal(progress[j]) =>
                  /\ progress'[j] = progress[j]
                  /\ emitted'[j] = emitted[j]]_vars
    /\ \A j \in 1..MaxFiles :
          (j \in DOMAIN emitted) ~>
              (j \in DOMAIN emitted /\ IsTerminal(emitted[j][Len(emitted[j])]))

\* The job has gone through preparing and processing and its last event, and no
\* other, is terminal
C27_Witness ==
    \E j \in DOMAIN emitted :
        /\ Len(emitted[j]) >= 4
        /\ emitted[j][1].status = "preparing"
        /\ emitted[j][2].status = "processing"
        /\ emitted[j][Len(emitted[j]) - 1].status = "processing"
        /\ emitted[j][Len(emitted[j])].status = "completed"

-----------------------------------------------------------------------------
(* Claims about absent supplier identifiers.                               *)

\* C28: an uploaded invoice whose supplierVat differs from a record's is not
\* flagged as a duplicate of that record merely because supplierFiscalCode is
\* absent (null) on both: the invoice is flagged only if some record has its
\* number and date and either its supplierVat or its supplierFiscalCode, the
\* latter not absent.
C28_AbsentIsNoMatch ==
    [][\A f \in DOMAIN files :
          (AtDuplicateCheck(f) /\ files'[f] # files[f] /\ files'[f].pc = "failed") =>
              LET list == ListChecked(f)
                  d == files[f].buffer.data
              IN  \E k \in 1..Len(list) :
                      /\ list[k].invoiceNumber = d.invoiceNumber
                      /\ list[k].invoiceDate = d.invoiceDate
                      /\ \/ list[k].supplierVat = d.supplierVat
                         \/ /\ list[k].supplierFiscalCode = d.supplierFiscalCode
                            /\ d.supplierFiscalCode # Null]_vars

-----------------------------------------------------------------------------
(* Claims about connections and the jobs of others.                        *)

\* C30: a connection for job J is only ever sent snapshots whose jobId is J,
\* whatever other jobs are running; a connection for a job id that is not in the
\* job table is first sent the `Job not found` error event, and it too is never
\* sent a snapshot of another job.
C30_OwnJobOnly ==
    /\ [](\A s \in DOMAIN subs :
            \A k \in 1..Len(subs[s].received) :
                IF subs[s].received[k] = JobNotFound
                THEN k = 1
                ELSE subs[s].received[k].jobId = subs[s].jobId)
    /\ [][\A s \in 1..MaxSubs :
            (Connects(s) /\ subs'[s].jobId \notin uploadJobs) =>
                subs'[s].received = <<JobNotFound>>]_vars

\* Two jobs ran side by side, each with a connection of its own that was sent more
\* than the snapshot of the moment it connected
C30_Witness ==
    \E s, t \in DOMAIN subs :
        /\ subs[s].jobId = 1
        /\ subs[t].jobId = 2
        /\ ToExistingJob(s) /\ ToExistingJob(t)
        /\ Len(subs[s].received) >= 2
        /\ Len(subs[t].received) >= 2
        /\ Len(emitted[2]) > subs[s].since
        /\ subs[t].since < Len(emitted[1])

=============================================================================
